---------------------------- MODULE Spec2Model ----------------------------
(***************************************************************************)
(* LinkCast signaling server (src/server.js): the room table, the          *)
(* WebSocket message handlers, the disconnect cleanup and the expiry sweep.*)
(*                                                                         *)
(* One action per handler.  A handler of the Node.js event loop runs to    *)
(* completion, so every action is the whole handler.  Room codes are       *)
(* tuples of characters so that toUpperCase() is computed, not assumed.    *)
(* Only sockets whose readyState is OPEN deliver messages to the handlers. *)
(*                                                                         *)
(* The transcode supervisor (StreamingService, src/unnamed/part_001) runs  *)
(* beside it: one action per stretch of startStreamFromStdin between two   *)
(* awaits, and one per timer or subprocess event.                          *)
(***************************************************************************)
EXTENDS Integers, Sequences, FiniteSets, TLC

VARIABLES
    rooms,                   \* Map roomCode -> room record (server.js:139)
    roomCreationInProgress,  \* Set of room codes (server.js:143)
    readyState,              \* ws.readyState of every socket
    wsRoomCode,              \* ws.roomCode of every socket (<<>> is null)
    wsRole,                  \* ws.role of every socket ("none" is null)
    now,                     \* Date.now()
    ticks,                   \* how many times the clock was advanced
    sent,                    \* what the last handler delivered: <<[to, msg]>>
    closeCalls,              \* sockets the last handler called close(4001) on
    last,                    \* the event the last handler handled
    joiner,                  \* history: who last joined each code with join-room
    relayLog,                \* history: the relayed messages in handling order
    calls,                   \* the invocations of startStreamFromStdin
    procs,                   \* the ffmpeg subprocess each invocation spawned
    activeStreams,           \* Map roomCode -> ffmpeg process (part_001:617)
    stdinProcesses,          \* Map roomCode -> stdin stream (part_001:618)
    streamDirs,              \* streams/<roomCode>: absent, a directory, a playlist
    cleanupTimers,           \* pending setTimeout(cleanupRoom) per room code
    notifyRequests,          \* POSTs to /api/notify-stream-ready on their way
    uncaught,                \* 'error' events emitted with no listener attached
    pipes,                   \* ffmpeg.stdin of each subprocess: its write buffer
    fed,                     \* the chunks each subprocess has read from its stdin
    chunkLog,                \* history: the writeChunk calls in arrival order
    viewerCounts,            \* Map roomCode -> viewer count (part_001:624)
    lastViewerActivity,      \* Map roomCode -> timestamp (part_001:625)
    autoStopTimers           \* Map roomCode -> auto-stop timer (part_001:626)

\* The state of the StreamingService (src/unnamed/part_001).
\* The input pipes of the subprocesses and what went through them.
pipeVars == <<pipes, fed, chunkLog>>

\* The viewer tracking of the StreamingService.
viewerVars == <<viewerCounts, lastViewerActivity, autoStopTimers>>

serviceVars == <<calls, procs, activeStreams, stdinProcesses, streamDirs,
                 cleanupTimers, notifyRequests, uncaught, pipeVars, viewerVars>>

vars == <<rooms, roomCreationInProgress, readyState, wsRoomCode, wsRole,
          now, ticks, sent, closeCalls, last,
          joiner, relayLog, serviceVars>>

---------------------------------------------------------------------------
(* Bounds and program constants *)

MaxTicks == 2           \* the clock is advanced at most MaxTicks times
MaxCalls == 2           \* startStreamFromStdin is called at most MaxCalls times
MaxLog == 3             \* the history keeps at most MaxLog relayed messages
MaxChunks == 3          \* writeChunk is called at most MaxChunks times
HighWaterMark == 2      \* the buffer limit of a stdin pipe, in units of data
MaxViewers == 2         \* a room is counted at most MaxViewers viewers

SweepInterval == 30000  \* setInterval(cleanupExpiredRooms, 30000)
SweepExtend == 60000    \* room.expiresAt = now + 60000
ActiveWindow == 300000  \* Date.now() + 300000 (join, rebind, countdown)
LegacyWindow == 1800000 \* 30 * 60 * 1000
StaleProgress == 30000  \* (now - room.createdAt) > 30000
RoomTtl == 20000        \* the 20 s lifetime a client asks for
InactiveThreshold == 60000 \* const inactiveThreshold = 60000
Epoch == 1000000        \* Date.now() when the server starts

\* The connections, in the order they are accepted.
SocketOrder == <<"s1", "s2">>
Sockets == {SocketOrder[i] : i \in 1..Len(SocketOrder)}
Null == "null"
NoCode == <<>>          \* a missing or empty roomCode: falsy in JavaScript
NoRole == "none"
Roles == {"android", "web"}

\* What clients put in roomCode.
RawCodes == {<<"a", "b">>}
\* What legacy clients put in sessionId.
SessionIds == {<<"A", "B">>}
\* How far behind the server clock a client clock may be.
ClientSkews == {0, 30000}
\* Steps of the clock between two handlers.
TickSteps == {SweepInterval, ActiveWindow}

---------------------------------------------------------------------------
(* Pure helpers *)

UpperChar(ch) ==
    CASE ch = "a" -> "A"
      [] ch = "b" -> "B"
      [] ch = "c" -> "C"
      [] ch = "d" -> "D"
      [] OTHER -> ch

\* String.prototype.toUpperCase
ToUpperCase(code) == [i \in 1..Len(code) |-> UpperChar(code[i])]

\* Every key the room table can hold.
Keys == SessionIds \cup {ToUpperCase(c) : c \in RawCodes}

\* send(ws, obj): delivered only to an OPEN socket.  rs is the readyState
\* map at the moment of the call.
Send(rs, ws, obj) ==
    IF ws # Null /\ rs[ws] = "OPEN" THEN <<[to |-> ws, msg |-> obj]>> ELSE <<>>

\* getPeer(roomCode, role) over the room table rm.
GetPeer(rm, roomCode, role) ==
    IF roomCode \notin DOMAIN rm THEN Null
    ELSE IF role = "android" THEN rm[roomCode].web ELSE rm[roomCode].android

\* rooms.delete(code)
MapDelete(rm, code) == [k \in (DOMAIN rm) \ {code} |-> rm[k]]

\* rooms.set(code, room)
MapSet(rm, code, room) ==
    [k \in (DOMAIN rm) \cup {code} |-> IF k = code THEN room ELSE rm[k]]

\* Date.now() > room.expiresAt
Expired(room, t) == t > room.expiresAt

ErrorMsg(text) == [type |-> "error", message |-> text]

\* The invocations of startStreamFromStdin, in the order they are made; the
\* subprocess an invocation spawns carries the invocation's number.
CallIds == 1..MaxCalls

\* An invocation that has not been made yet.  pc is where the invocation
\* stands, result how its promise was settled, spawnErrorOccurred the flag
\* of that name, registered whether the 'close' handler of its subprocess
\* has been attached (it is attached just before activeStreams.set).
\* A stdin pipe nothing has been written to.
EmptyPipe == [buf |-> <<>>, needDrain |-> FALSE, drained |-> FALSE]

IdleCall ==
    [pc |-> "idle", code |-> NoCode, result |-> "pending",
     spawnErrorOccurred |-> FALSE, registered |-> FALSE]

---------------------------------------------------------------------------
(* Initial state: the server has started, nobody is connected *)

Init ==
    /\ rooms = << >>
    /\ roomCreationInProgress = {}
    /\ readyState = [s \in Sockets |-> "NONE"]
    /\ wsRoomCode = [s \in Sockets |-> NoCode]
    /\ wsRole = [s \in Sockets |-> NoRole]
    /\ now = Epoch
    /\ ticks = 0
    /\ sent = <<>>
    /\ closeCalls = {}
    /\ last = [op |-> "start"]
    /\ joiner = [c \in Keys |-> Null]
    /\ relayLog = <<>>
    /\ calls = [k \in CallIds |-> IdleCall]
    /\ procs = [k \in CallIds |-> "none"]
    /\ activeStreams = << >>
    /\ stdinProcesses = << >>
    /\ streamDirs = [c \in Keys |-> "none"]
    /\ cleanupTimers = [c \in Keys |-> 0]
    /\ notifyRequests = {}
    /\ uncaught = {}
    /\ pipes = [k \in CallIds |-> EmptyPipe]
    /\ fed = [k \in CallIds |-> <<>>]
    /\ chunkLog = <<>>
    /\ viewerCounts = [c \in Keys |-> 0]
    /\ lastViewerActivity = << >>
    /\ autoStopTimers = [c \in Keys |-> "none"]

\* wss.on('connection'): a new socket object, no room, no role.
Connect(ws) ==
    /\ readyState[ws] = "NONE"
    /\ \A i, j \in 1..Len(SocketOrder) :
          i < j /\ SocketOrder[j] = ws => readyState[SocketOrder[i]] # "NONE"
    /\ readyState' = [readyState EXCEPT ![ws] = "OPEN"]
    /\ sent' = <<>>
    /\ closeCalls' = {}
    /\ last' = [op |-> "connection", ws |-> ws]
    /\ UNCHANGED <<rooms, roomCreationInProgress, wsRoomCode, wsRole, now, ticks, joiner, relayLog>>
    /\ UNCHANGED serviceVars

\* Time passes between two handlers.
Tick(d) ==
    /\ ticks < MaxTicks
    /\ now' = now + d
    /\ ticks' = ticks + 1
    /\ sent' = <<>>
    /\ closeCalls' = {}
    /\ last' = [op |-> "tick"]
    /\ UNCHANGED <<rooms, roomCreationInProgress, readyState, wsRoomCode, wsRole,
                   joiner, relayLog>>
    /\ UNCHANGED serviceVars


---------------------------------------------------------------------------
(* Message handlers.  Each handler is computed as a record of everything   *)
(* it leaves behind; Handle installs that record as the next state.        *)

\* The state a handler leaves: room table, progress set, readyState map,
\* the sender's roomCode and role, the deliveries and the close(4001) calls.
Outcome(rm, prog, rs, code, role, out, cl) ==
    [rooms |-> rm, prog |-> prog, rs |-> rs, code |-> code, role |-> role,
     sent |-> out, closes |-> cl]

\* A handler that only answers the sender.
ReplyOnly(ws, obj) ==
    Outcome(rooms, roomCreationInProgress, readyState, wsRoomCode[ws],
            wsRole[ws], Send(readyState, ws, obj), {})

\* ws.on('message') for an OPEN socket: run the handler, record the event.
Dispatch(ws, res, ev) ==
    /\ readyState[ws] = "OPEN"
    /\ rooms' = res.rooms
    /\ roomCreationInProgress' = res.prog
    /\ readyState' = res.rs
    /\ wsRoomCode' = [wsRoomCode EXCEPT ![ws] = res.code]
    /\ wsRole' = [wsRole EXCEPT ![ws] = res.role]
    /\ sent' = res.sent
    /\ closeCalls' = res.closes
    /\ last' = ev
    /\ UNCHANGED <<now, ticks>>
    /\ UNCHANGED serviceVars

Handle(ws, res, ev) == Dispatch(ws, res, ev) /\ UNCHANGED <<joiner, relayLog>>

\* JSON.parse throws.
InvalidJson(ws) ==
    Handle(ws, ReplyOnly(ws, ErrorMsg("Invalid JSON")),
           [op |-> "invalid-json", ws |-> ws])

\* Types no handler takes: the name the specification gives to ICE messages,
\* and one more.
UnknownTypes == {"ice-candidate", "ping"}

\* `unknown type: ${type}`
UnknownTypeText(type) ==
    IF type = "ice-candidate" THEN "unknown type: ice-candidate"
    ELSE "unknown type: ping"

\* None of the handled types.
UnknownType(ws, type) ==
    Handle(ws, ReplyOnly(ws, ErrorMsg(UnknownTypeText(type))),
           [op |-> type, ws |-> ws])

(* create-room *)

\* CreateRoomBranch that rejects every request for a live code.
CreateRoomBranchAlwaysRejecting(ws, code) ==
    IF code \in roomCreationInProgress THEN "in-progress"
    ELSE IF code \notin DOMAIN rooms THEN "new"
    ELSE IF Expired(rooms[code], now) THEN "reclaim"
    ELSE "exists"

\* Which path of the create-room handler a request for the normalized code
\* takes: the progress check, then the existing-room checks.
CreateRoomBranch(ws, code) ==
    IF code \in roomCreationInProgress THEN "in-progress"
    ELSE IF code \notin DOMAIN rooms THEN "new"
    ELSE IF Expired(rooms[code], now) THEN "reclaim"
    ELSE IF rooms[code].web = Null \/ readyState[rooms[code].web] # "OPEN"
         THEN "rebind"
    ELSE IF rooms[code].web = ws THEN "duplicate"
    ELSE "exists"

\* roomCreationInProgress.add(code)
MarkInProgress(prog, code) == prog \cup {code}

\* A handler that returns without removing its marker.
ClearInProgressForgetting(prog, code) == prog

\* roomCreationInProgress.delete(code)
ClearInProgress(prog, code) == prog \ {code}

CreateRoomOutcome(ws, raw, createdAt, expiresAt) ==
    IF raw = NoCode
    THEN ReplyOnly(ws, ErrorMsg("create-room requires roomCode, createdAt, expiresAt"))
    ELSE
    LET code == ToUpperCase(raw)
        branch == CreateRoomBranch(ws, code)
        \* roomCreationInProgress.add(code) ... .delete(code) on every path
        marked == MarkInProgress(roomCreationInProgress, code)
        cleared == ClearInProgress(marked, code)
        created == Send(readyState, ws, [type |-> "room-created", roomCode |-> code])
    IN  CASE branch = "in-progress" ->
               ReplyOnly(ws, ErrorMsg("Room creation already in progress"))
          [] branch = "exists" ->
               Outcome(rooms, cleared, readyState, wsRoomCode[ws], wsRole[ws],
                       Send(readyState, ws, ErrorMsg("Room code already exists")), {})
          [] branch = "duplicate" ->
               Outcome(rooms, cleared, readyState, wsRoomCode[ws], wsRole[ws],
                       created, {})
          [] branch = "rebind" ->
               Outcome(MapSet(rooms, code,
                              [android |-> rooms[code].android,
                               web |-> ws,
                               createdAt |-> rooms[code].createdAt,
                               expiresAt |-> now + ActiveWindow,
                               used |-> rooms[code].used]),
                       cleared, readyState, code, "web", created, {})
          [] OTHER -> \* "new", or "reclaim" after rooms.delete(code)
               Outcome(MapSet(MapDelete(rooms, code), code,
                              [android |-> Null,
                               web |-> ws,
                               createdAt |-> createdAt,
                               expiresAt |-> expiresAt,
                               used |-> FALSE]),
                       cleared, readyState, code, "web", created, {})

\* The client stamps createdAt and expiresAt with its own clock.
CreateRoom(ws, raw, skew) ==
    Handle(ws, CreateRoomOutcome(ws, raw, now - skew, now - skew + RoomTtl),
           [op |-> "create-room", ws |-> ws, roomCode |-> raw])

(* join-room *)

\* JoinRoomReply without the used check.
JoinRoomReplyIgnoringUsed(code) ==
    IF code \notin DOMAIN rooms THEN "room-not-found"
    ELSE IF Expired(rooms[code], now) THEN "room-expired"
    ELSE IF rooms[code].web = Null THEN "room-not-ready"
    ELSE "room-joined"

\* JoinRoomReply with the used check made before the expiry check.
JoinRoomReplyUsedFirst(code) ==
    IF code \notin DOMAIN rooms THEN "room-not-found"
    ELSE IF rooms[code].used THEN "room-already-used"
    ELSE IF Expired(rooms[code], now) THEN "room-expired"
    ELSE IF rooms[code].web = Null THEN "room-not-ready"
    ELSE "room-joined"

\* The reply type of join-room for the normalized code: the checks in the
\* order the handler makes them.
JoinRoomReply(code) ==
    IF code \notin DOMAIN rooms THEN "room-not-found"
    ELSE IF Expired(rooms[code], now) THEN "room-expired"
    ELSE IF rooms[code].used THEN "room-already-used"
    ELSE IF rooms[code].web = Null THEN "room-not-ready"
    ELSE "room-joined"

\* JoinedRoom without the extension of the deadline.
JoinedRoomNotExtended(room, ws) ==
    [room EXCEPT !.android = ws, !.used = TRUE]

\* The success path: the room after the joiner is bound.
JoinedRoom(room, ws) ==
    [room EXCEPT !.android = ws, !.used = TRUE, !.expiresAt = now + ActiveWindow]

JoinRoomOutcome(ws, raw) ==
    IF raw = NoCode
    THEN ReplyOnly(ws, ErrorMsg("join-room requires roomCode"))
    ELSE
    LET code == ToUpperCase(raw)
        reply == JoinRoomReply(code)
    IN  CASE reply = "room-not-found" ->
               ReplyOnly(ws, [type |-> "room-not-found", message |-> "Room not found"])
          [] reply = "room-expired" ->
               Outcome(MapDelete(rooms, code), roomCreationInProgress, readyState,
                       wsRoomCode[ws], wsRole[ws],
                       Send(readyState, ws,
                            [type |-> "room-expired", message |-> "Room has expired"]),
                       {})
          [] reply = "room-already-used" ->
               ReplyOnly(ws, [type |-> "room-already-used", message |-> "Room already used"])
          [] reply = "room-not-ready" ->
               ReplyOnly(ws, [type |-> "room-not-ready", message |-> "Web client not ready"])
          [] OTHER ->
               Outcome(MapSet(rooms, code, JoinedRoom(rooms[code], ws)),
                       roomCreationInProgress, readyState, code, "android",
                       Send(readyState, ws,
                            [type |-> "room-joined", roomCode |-> code, peerReady |-> TRUE])
                       \o Send(readyState, rooms[code].web,
                               [type |-> "peer-joined", roomCode |-> code,
                                role |-> "android"]),
                       {})

\* With track, the history records who joined.
JoinRoom(ws, raw, track) ==
    /\ Dispatch(ws, JoinRoomOutcome(ws, raw),
                [op |-> "join-room", ws |-> ws, roomCode |-> raw])
    /\ joiner' = IF track /\ raw # NoCode
                    /\ JoinRoomReply(ToUpperCase(raw)) = "room-joined"
                 THEN [joiner EXCEPT ![ToUpperCase(raw)] = ws]
                 ELSE joiner
    /\ UNCHANGED relayLog

(* join: the legacy sessionId protocol *)

\* rooms.set(sessionId, fresh room) when the key is absent; the key is the
\* sessionId as sent, not normalized.
LegacyRoomTable(sessionId) ==
    IF sessionId \in DOMAIN rooms THEN rooms
    ELSE MapSet(rooms, sessionId,
                [android |-> Null, web |-> Null, createdAt |-> now,
                 expiresAt |-> now + LegacyWindow, used |-> FALSE])

\* The sockets close(4001) is called on when ws takes the slot of old.
Replaced(old, ws) == IF old # Null /\ old # ws THEN {old} ELSE {}

\* WebSocket.close(): an OPEN socket becomes CLOSING.
AfterClose(rs, cl) ==
    [s \in DOMAIN rs |-> IF s \in cl /\ rs[s] = "OPEN" THEN "CLOSING" ELSE rs[s]]

LegacyJoinOutcome(ws, sessionId, role) ==
    IF sessionId = NoCode \/ role \notin Roles
    THEN ReplyOnly(ws, ErrorMsg("join requires sessionId + role(android|web)"))
    ELSE
    LET table == LegacyRoomTable(sessionId)
        old == table[sessionId][role]
        cl == Replaced(old, ws)
        rs == AfterClose(readyState, cl)
        rm == MapSet(table, sessionId, [table[sessionId] EXCEPT ![role] = ws])
        peer == GetPeer(rm, sessionId, role)
    IN  Outcome(rm, roomCreationInProgress, rs, sessionId, role,
                Send(rs, ws, [type |-> "joined", sessionId |-> sessionId,
                              role |-> role, peerReady |-> (peer # Null)])
                \o Send(rs, peer, [type |-> "peer-joined", sessionId |-> sessionId,
                                   role |-> role]),
                cl)

LegacyJoin(ws, sessionId, role) ==
    Handle(ws, LegacyJoinOutcome(ws, sessionId, role),
           [op |-> "join", ws |-> ws, roomCode |-> sessionId, role |-> role])

(* relayed messages *)

Payloads == {"p1", "p2"}
\* The relayed types with ICE messages named as the specification names them.
RelayTypesWithIceCandidate == {"offer", "answer", "ice-candidate", "cmd"}

\* ['offer', 'answer', 'ice', 'cmd']
RelayTypes == {"offer", "answer", "ice", "cmd"}

Bound(ws) == wsRoomCode[ws] # NoCode /\ wsRole[ws] # NoRole

\* NotJoined that fails without a word.
NotJoinedSilent(ws) ==
    Outcome(rooms, roomCreationInProgress, readyState, wsRoomCode[ws],
            wsRole[ws], <<>>, {})

\* An unbound sender is told so.
NotJoined(ws) == ReplyOnly(ws, ErrorMsg("not joined to room yet"))

\* ToPeer that drops the message of a sender without a peer.
ToPeerSilent(ws, rm, obj) ==
    Send(readyState, GetPeer(rm, wsRoomCode[ws], wsRole[ws]), obj)

\* ToPeer that writes the message to the peer twice.
ToPeerTwice(ws, rm, obj) ==
    LET peer == GetPeer(rm, wsRoomCode[ws], wsRole[ws])
    IN  IF peer = Null
        THEN Send(readyState, ws, ErrorMsg("peer not available"))
        ELSE Send(readyState, peer, obj) \o Send(readyState, peer, obj)

\* Deliver obj to the peer of ws, or answer 'peer not available'.
ToPeer(ws, rm, obj) ==
    LET peer == GetPeer(rm, wsRoomCode[ws], wsRole[ws])
    IN  IF peer = Null
        THEN Send(readyState, ws, ErrorMsg("peer not available"))
        ELSE Send(readyState, peer, obj)

\* offer, answer, ice, cmd: the message goes to the peer as it came.
RelayOutcome(ws, type, payload) ==
    IF ~Bound(ws) THEN NotJoined(ws)
    ELSE Outcome(rooms, roomCreationInProgress, readyState, wsRoomCode[ws],
                 wsRole[ws],
                 ToPeer(ws, rooms, [type |-> type, payload |-> payload]), {})

Relay(ws, type, payload) ==
    Handle(ws, RelayOutcome(ws, type, payload),
           [op |-> type, ws |-> ws, payload |-> payload])

\* The same handler with the history kept: the message as it arrived, the
\* sender, the socket in the other slot at that moment and whether it was
\* open, and what the handler passed to send().  The 'message' events of
\* one socket fire in the order the client sent them, and a socket carries
\* what send() wrote to it in the order of the calls.
RelayLogged(ws, type, payload) ==
    /\ Len(relayLog) < MaxLog
    /\ Dispatch(ws, RelayOutcome(ws, type, payload),
                [op |-> type, ws |-> ws, payload |-> payload])
    /\ LET peer == IF Bound(ws)
                   THEN GetPeer(rooms, wsRoomCode[ws], wsRole[ws])
                   ELSE Null
       IN  relayLog' =
             Append(relayLog,
                    [from |-> ws,
                     msg |-> [type |-> type, payload |-> payload],
                     peer |-> peer,
                     open |-> peer # Null /\ readyState[peer] = "OPEN",
                     sent |-> RelayOutcome(ws, type, payload).sent])
    /\ UNCHANGED joiner

\* command: rewritten to cmd for the peer.
CommandOutcome(ws, command, data) ==
    IF ~Bound(ws) THEN NotJoined(ws)
    ELSE Outcome(rooms, roomCreationInProgress, readyState, wsRoomCode[ws],
                 wsRole[ws],
                 ToPeer(ws, rooms, [type |-> "cmd", cmd |-> command, payload |-> data]),
                 {})

Command(ws, command, data) ==
    Handle(ws, CommandOutcome(ws, command, data),
           [op |-> "command", ws |-> ws, command |-> command, payload |-> data])

\* countdown-start: the sender's room, when it exists, is extended first.
CountdownRooms(ws) ==
    IF wsRoomCode[ws] \in DOMAIN rooms
    THEN [rooms EXCEPT ![wsRoomCode[ws]].expiresAt = now + ActiveWindow]
    ELSE rooms

CountdownOutcome(ws) ==
    IF ~Bound(ws) THEN NotJoined(ws)
    ELSE Outcome(CountdownRooms(ws), roomCreationInProgress, readyState,
                 wsRoomCode[ws], wsRole[ws],
                 ToPeer(ws, CountdownRooms(ws), [type |-> "countdown-start"]), {})

CountdownStart(ws) ==
    Handle(ws, CountdownOutcome(ws), [op |-> "countdown-start", ws |-> ws])

(* start-stream / stop-stream *)

\* normalizeRoomCode: trim().toUpperCase(); the codes here hold no blanks.
NormalizeRoomCode(code) == ToUpperCase(code)

\* The notice goes to the sender and then to the peer, if there is one.
StreamNotice(ws, obj) ==
    Send(readyState, ws, obj)
    \o Send(readyState, GetPeer(rooms, wsRoomCode[ws], wsRole[ws]), obj)

\* StartStreamOutcome without the role check.
StartStreamOutcomeAnyRole(ws) ==
    IF ~Bound(ws) THEN NotJoined(ws)
    ELSE Outcome(rooms, roomCreationInProgress, readyState, wsRoomCode[ws],
                 wsRole[ws],
                 StreamNotice(ws, [type |-> "stream_ready",
                                   roomCode |-> NormalizeRoomCode(wsRoomCode[ws])]),
                 {})

StartStreamOutcome(ws) ==
    IF ~Bound(ws) THEN NotJoined(ws)
    ELSE IF wsRole[ws] # "web"
    THEN ReplyOnly(ws, ErrorMsg("only web client can start streaming"))
    ELSE Outcome(rooms, roomCreationInProgress, readyState, wsRoomCode[ws],
                 wsRole[ws],
                 StreamNotice(ws, [type |-> "stream_ready",
                                   roomCode |-> NormalizeRoomCode(wsRoomCode[ws])]),
                 {})

StartStream(ws) ==
    Handle(ws, StartStreamOutcome(ws), [op |-> "start-stream", ws |-> ws])

StopStreamOutcome(ws) ==
    IF ~Bound(ws) THEN NotJoined(ws)
    ELSE IF wsRole[ws] # "web"
    THEN ReplyOnly(ws, ErrorMsg("only web client can stop streaming"))
    ELSE Outcome(rooms, roomCreationInProgress, readyState, wsRoomCode[ws],
                 wsRole[ws],
                 StreamNotice(ws, [type |-> "stream_stopped",
                                   roomCode |-> NormalizeRoomCode(wsRoomCode[ws])]),
                 {})

StopStream(ws) ==
    Handle(ws, StopStreamOutcome(ws), [op |-> "stop-stream", ws |-> ws])

(* leave *)

\* LeaveRooms that only vacates the sender's slot, as a disconnect does.
LeaveRoomsVacating(ws) ==
    IF wsRoomCode[ws] \in DOMAIN rooms
    THEN LET room == [rooms[wsRoomCode[ws]] EXCEPT ![wsRole[ws]] = Null]
         IN  IF room.android = Null /\ room.web = Null
             THEN MapDelete(rooms, wsRoomCode[ws])
             ELSE MapSet(rooms, wsRoomCode[ws], room)
    ELSE rooms

\* The room table after leave: the sender's room, if it exists, is deleted.
LeaveRooms(ws) ==
    IF wsRoomCode[ws] \in DOMAIN rooms THEN MapDelete(rooms, wsRoomCode[ws])
    ELSE rooms

\* A leave handler without the check of the sender's binding.
LeaveOutcomeUnchecked(ws) ==
    LET peer == GetPeer(rooms, wsRoomCode[ws], wsRole[ws])
    IN  Outcome(LeaveRooms(ws), roomCreationInProgress, readyState, NoCode, NoRole,
                Send(readyState, peer,
                     [type |-> "room_closed", roomCode |-> wsRoomCode[ws],
                      reason |-> "peer_left"])
                \o Send(readyState, ws,
                        [type |-> "left", message |-> "Successfully left room"]),
                {})

LeaveOutcome(ws) ==
    IF ~Bound(ws) THEN NotJoined(ws)
    ELSE
    LET peer == GetPeer(rooms, wsRoomCode[ws], wsRole[ws])
    IN  Outcome(LeaveRooms(ws), roomCreationInProgress, readyState, NoCode, NoRole,
                Send(readyState, peer,
                     [type |-> "room_closed", roomCode |-> wsRoomCode[ws],
                      reason |-> "peer_left"])
                \o Send(readyState, ws,
                        [type |-> "left", message |-> "Successfully left room"]),
                {})

Leave(ws) ==
    Handle(ws, LeaveOutcome(ws), [op |-> "leave", ws |-> ws])

---------------------------------------------------------------------------
(* Disconnects *)

\* Vacate that keeps the emptied room.
VacateKeepingRoom(rm, code, role) ==
    MapSet(rm, code, [rm[code] EXCEPT ![role] = Null])

\* room[ws.role] = null, then the room is deleted when both slots are null.
Vacate(rm, code, role) ==
    LET room == [rm[code] EXCEPT ![role] = Null]
    IN  IF room.android = Null /\ room.web = Null
        THEN MapDelete(rm, code)
        ELSE MapSet(rm, code, room)

\* cleanup(ws), with rs the readyState map when the event is emitted.
CleanupOutcome(ws, rs) ==
    IF ~Bound(ws) \/ wsRoomCode[ws] \notin DOMAIN rooms
    THEN Outcome(rooms, roomCreationInProgress, rs, wsRoomCode[ws], wsRole[ws],
                 <<>>, {})
    ELSE
    LET code == wsRoomCode[ws]
        role == wsRole[ws]
        peer == GetPeer(MapSet(rooms, code, [rooms[code] EXCEPT ![role] = Null]),
                        code, role)
    IN  Outcome(Vacate(rooms, code, role), roomCreationInProgress \ {code}, rs,
                code, role,
                Send(rs, peer, [type |-> "peer-left", roomCode |-> code,
                                role |-> role]),
                {})

\* A socket event: the handler runs whatever the socket's state.
Emit(ws, res, ev) ==
    /\ rooms' = res.rooms
    /\ roomCreationInProgress' = res.prog
    /\ readyState' = res.rs
    /\ sent' = res.sent
    /\ closeCalls' = res.closes
    /\ last' = ev
    /\ UNCHANGED <<wsRoomCode, wsRole, now, ticks, joiner, relayLog>>
    /\ UNCHANGED serviceVars

\* ws.on('error'): a transport error; the socket is CLOSING when it is emitted
\* and 'close' follows.
OnError(ws) ==
    /\ readyState[ws] = "OPEN"
    /\ Emit(ws, CleanupOutcome(ws, [readyState EXCEPT ![ws] = "CLOSING"]),
            [op |-> "error", ws |-> ws])

\* ws.on('close'): the socket is CLOSED when it is emitted.
OnClose(ws) ==
    /\ readyState[ws] \in {"OPEN", "CLOSING"}
    /\ Emit(ws, CleanupOutcome(ws, [readyState EXCEPT ![ws] = "CLOSED"]),
            [op |-> "close", ws |-> ws])

\* The heartbeat finds the socket dead and calls terminate(): the socket is
\* CLOSING until its 'close' event.
Terminate(ws) ==
    /\ readyState[ws] = "OPEN"
    /\ readyState' = [readyState EXCEPT ![ws] = "CLOSING"]
    /\ sent' = <<>>
    /\ closeCalls' = {}
    /\ last' = [op |-> "terminate", ws |-> ws]
    /\ UNCHANGED <<rooms, roomCreationInProgress, wsRoomCode, wsRole, now, ticks, joiner, relayLog>>
    /\ UNCHANGED serviceVars

---------------------------------------------------------------------------
(* The sweep *)

\* SweepDecision that deletes every expired room, occupied or not.
SweepDecisionDeletingOccupied(room, t) ==
    IF Expired(room, t) THEN "delete" ELSE "keep"

\* What cleanupExpiredRooms does with one room at time t: "delete",
\* "extend" or "keep".
SweepDecision(room, t) ==
    IF Expired(room, t) /\ room.android = Null /\ room.web = Null THEN "delete"
    ELSE IF Expired(room, t) /\ (room.android # Null \/ room.web # Null)
    THEN "extend"
    ELSE "keep"

SweptRooms(rm, t) ==
    [k \in {c \in DOMAIN rm : SweepDecision(rm[c], t) # "delete"} |->
        IF SweepDecision(rm[k], t) = "extend"
        THEN [rm[k] EXCEPT !.expiresAt = t + SweepExtend]
        ELSE rm[k]]

\* The progress flags the sweep drops: no room, or a room created long ago.
StaleFlags(rm, prog, t) ==
    {c \in prog : c \notin DOMAIN rm \/ (t - rm[c].createdAt) > StaleProgress}

\* setInterval(cleanupExpiredRooms, 30000)
Sweep ==
    /\ rooms' = SweptRooms(rooms, now)
    /\ roomCreationInProgress' =
          roomCreationInProgress
          \ StaleFlags(SweptRooms(rooms, now), roomCreationInProgress, now)
    /\ sent' = <<>>
    /\ closeCalls' = {}
    /\ last' = [op |-> "sweep"]
    /\ UNCHANGED <<readyState, wsRoomCode, wsRole, now, ticks, joiner, relayLog>>
    /\ UNCHANGED serviceVars

---------------------------------------------------------------------------
(* The transcode supervisor: class StreamingService (src/unnamed/part_001). *)
(* startStreamFromStdin is an async function: each stretch between two of   *)
(* its awaits is one action, and timers and subprocess events are actions.  *)

\* What spawn('ffmpeg') and the first look at ffmpeg.stdin can give: spawn
\* throws; the child has no pid; stdin is not writable yet; stdin is writable.
SpawnOutcomes == {"throws", "no-pid", "waits", "writable"}

StreamReady(c) == [type |-> "stream_ready", roomCode |-> c]

\* A promise is settled once; later resolve and reject calls do nothing.
Settle(call, result) ==
    IF call.result = "pending" THEN [call EXCEPT !.result = result] ELSE call

\* if (ffmpeg && !ffmpeg.killed) ffmpeg.kill(signal)
Kill(ps, k) == IF ps[k] = "running" THEN [ps EXCEPT ![k] = "killed"] ELSE ps

\* What every action of the service leaves alone in the signaling server.
ServerUntouched(ev, out) ==
    /\ sent' = out
    /\ closeCalls' = {}
    /\ last' = ev
    /\ UNCHANGED <<rooms, roomCreationInProgress, readyState, wsRoomCode, wsRole,
                   now, ticks, joiner, relayLog>>

\* An action of the service in which no event goes without a listener and
\* no pipe is written or read.
ServiceEvent(ev, out) ==
    /\ ServerUntouched(ev, out)
    /\ UNCHANGED <<uncaught, pipeVars, viewerVars>>

\* notifyWebClientStreamReady: the web occupant, when its socket is open,
\* and then the android occupant, when its socket is open.
NotifyWebClientStreamReady(c) ==
    IF c \in DOMAIN rooms /\ rooms[c].web # Null /\ readyState[rooms[c].web] = "OPEN"
    THEN Send(readyState, rooms[c].web, StreamReady(c))
         \o Send(readyState, rooms[c].android, StreamReady(c))
    ELSE <<>>

\* startStreamFromStdin(c) up to its first await.  With a session for c in
\* activeStreams the playlist URL is returned at once; otherwise the room
\* directory is made and ffmpeg is spawned, and when its stdin is writable
\* the invocation runs on to the registration of the session.
StartStreamFromStdin(k, c, outcome) ==
    /\ calls[k].pc = "idle"
    /\ \A j \in CallIds : j < k => calls[j].pc # "idle"
    /\ IF c \in DOMAIN activeStreams
       THEN /\ calls' = [calls EXCEPT ![k] =
                            [IdleCall EXCEPT !.pc = "done", !.code = c,
                                             !.result = "resolved"]]
            /\ UNCHANGED <<procs, activeStreams, stdinProcesses, streamDirs>>
       ELSE /\ streamDirs' = [streamDirs EXCEPT
                                ![c] = IF @ = "none" THEN "dir" ELSE @]
            /\ calls' = [calls EXCEPT ![k] =
                  [IdleCall EXCEPT
                     !.code = c,
                     !.pc = CASE outcome = "waits" -> "stdin-wait"
                              [] outcome = "writable" -> "playlist-wait"
                              [] OTHER -> "done",
                     !.result = IF outcome \in {"throws", "no-pid"}
                                THEN "rejected" ELSE "pending",
                     !.registered = (outcome = "writable")]]
            /\ procs' = [procs EXCEPT
                           ![k] = CASE outcome = "throws" -> "none"
                                    [] outcome = "no-pid" -> "failed"
                                    [] OTHER -> "running"]
            /\ IF outcome = "writable"
               THEN /\ stdinProcesses' = MapSet(stdinProcesses, c, k)
                    /\ activeStreams' = MapSet(activeStreams, c, k)
               ELSE UNCHANGED <<activeStreams, stdinProcesses>>
    /\ UNCHANGED <<cleanupTimers, notifyRequests>>
    /\ ServiceEvent([op |-> "startStreamFromStdin", call |-> k, code |-> c], <<>>)

\* checkStdin finds ffmpeg.stdin writable: the stdin stream and then the
\* process are stored under the room code.
StdinReady(k) ==
    /\ calls[k].pc = "stdin-wait"
    /\ procs[k] = "running"
    /\ calls' = [calls EXCEPT ![k].pc = "playlist-wait", ![k].registered = TRUE]
    /\ stdinProcesses' = MapSet(stdinProcesses, calls[k].code, k)
    /\ activeStreams' = MapSet(activeStreams, calls[k].code, k)
    /\ UNCHANGED <<procs, streamDirs, cleanupTimers, notifyRequests>>
    /\ ServiceEvent([op |-> "stdin-ready", call |-> k], <<>>)

\* The 5 s spawn timer fires while stdin is awaited.
SpawnTimeout(k) ==
    /\ calls[k].pc = "stdin-wait"
    /\ ~calls[k].spawnErrorOccurred
    /\ calls' = [calls EXCEPT
                   ![k] = [Settle(@, "rejected") EXCEPT !.spawnErrorOccurred = TRUE]]
    /\ procs' = Kill(procs, k)
    /\ UNCHANGED <<activeStreams, stdinProcesses, streamDirs, cleanupTimers,
                   notifyRequests>>
    /\ ServiceEvent([op |-> "spawn-timeout", call |-> k], <<>>)

\* The wait for stdin gives up (the 10 s timer, or 200 checks).
StdinTimeout(k) ==
    /\ calls[k].pc = "stdin-wait"
    /\ calls' = [calls EXCEPT ![k] = [Settle(@, "rejected") EXCEPT !.pc = "done"]]
    /\ procs' = Kill(procs, k)
    /\ UNCHANGED <<activeStreams, stdinProcesses, streamDirs, cleanupTimers,
                   notifyRequests>>
    /\ ServiceEvent([op |-> "stdin-timeout", call |-> k], <<>>)

\* ffmpeg.on('close'): the subprocess has exited, by itself or killed.  The
\* handler, once attached, deletes the entries of the room code and defers
\* the removal of the room directory.
FfmpegClose(k) ==
    /\ procs[k] \in {"running", "killed"}
    /\ procs' = [procs EXCEPT ![k] = "closed"]
    /\ IF calls[k].registered
       THEN /\ activeStreams' = MapDelete(activeStreams, calls[k].code)
            /\ stdinProcesses' = MapDelete(stdinProcesses, calls[k].code)
            /\ cleanupTimers' = [cleanupTimers EXCEPT ![calls[k].code] = @ + 1]
       ELSE UNCHANGED <<activeStreams, stdinProcesses, cleanupTimers>>
    /\ UNCHANGED <<calls, streamDirs, notifyRequests>>
    /\ ServiceEvent([op |-> "ffmpeg-close", call |-> k], <<>>)

\* ffmpeg.on('error', ...) is attached after the PID check, in the stretch
\* that spawned the subprocess: an invocation that returned at the PID
\* check never attached it.
ErrorListener(k) == procs[k] \notin {"none", "failed"}

\* The 'error' event of a subprocess that could not be spawned (for example
\* no ffmpeg executable): Node emits it on a later tick, after spawn() has
\* returned a child without a pid.  With the listener attached the entries
\* of the room code are deleted and the invocation rejects; an 'error'
\* event without a listener is thrown as an uncaught exception.
FfmpegError(k) ==
    /\ procs[k] = "failed"
    /\ procs' = [procs EXCEPT ![k] = "errored"]
    /\ IF ErrorListener(k)
       THEN /\ IF calls[k].spawnErrorOccurred
               THEN UNCHANGED <<calls, activeStreams, stdinProcesses>>
               ELSE /\ calls' = [calls EXCEPT
                                   ![k] = [Settle(@, "rejected") EXCEPT
                                             !.spawnErrorOccurred = TRUE]]
                    /\ activeStreams' = MapDelete(activeStreams, calls[k].code)
                    /\ stdinProcesses' = MapDelete(stdinProcesses, calls[k].code)
            /\ UNCHANGED uncaught
       ELSE /\ uncaught' = uncaught \cup {k}
            /\ UNCHANGED <<calls, activeStreams, stdinProcesses>>
    /\ UNCHANGED <<streamDirs, cleanupTimers, notifyRequests, pipeVars, viewerVars>>
    /\ ServerUntouched([op |-> "ffmpeg-error", call |-> k], <<>>)

\* The subprocess that is fed through the registered stdin writes
\* playlist.m3u8 into the room directory.
PlaylistAppears(c) ==
    /\ c \in DOMAIN stdinProcesses
    /\ procs[stdinProcesses[c]] = "running"
    /\ streamDirs[c] = "dir"
    /\ streamDirs' = [streamDirs EXCEPT ![c] = "playlist"]
    /\ UNCHANGED <<calls, procs, activeStreams, stdinProcesses, cleanupTimers,
                   notifyRequests>>
    /\ ServiceEvent([op |-> "playlist-appears", code |-> c], <<>>)

\* checkInterval finds the playlist: the server is notified over HTTP, the
\* occupants over their sockets, and the invocation resolves.
PlaylistFound(k) ==
    /\ calls[k].pc = "playlist-wait"
    /\ streamDirs[calls[k].code] = "playlist"
    /\ calls' = [calls EXCEPT ![k] = [Settle(@, "resolved") EXCEPT !.pc = "done"]]
    /\ notifyRequests' = notifyRequests \cup {calls[k].code}
    /\ UNCHANGED <<procs, activeStreams, stdinProcesses, streamDirs, cleanupTimers>>
    /\ ServiceEvent([op |-> "playlist-found", call |-> k, code |-> calls[k].code],
                    NotifyWebClientStreamReady(calls[k].code))

\* The 15 s playlist timer fires: the subprocess is killed, the entries of
\* the room code are deleted, the invocation rejects.
PlaylistTimeout(k) ==
    /\ calls[k].pc = "playlist-wait"
    /\ calls' = [calls EXCEPT ![k] = [Settle(@, "rejected") EXCEPT !.pc = "done"]]
    /\ procs' = Kill(procs, k)
    /\ activeStreams' = MapDelete(activeStreams, calls[k].code)
    /\ stdinProcesses' = MapDelete(stdinProcesses, calls[k].code)
    /\ UNCHANGED <<streamDirs, cleanupTimers, notifyRequests>>
    /\ ServiceEvent([op |-> "playlist-timeout", call |-> k, code |-> calls[k].code],
                    <<>>)

\* The sizes a chunk can have: below the buffer limit of the pipe, and not.
ChunkSizes == {1, HighWaterMark}

\* The amount of data in a write buffer.
RECURSIVE BufferedLength(_)
BufferedLength(buf) ==
    IF buf = <<>> THEN 0 ELSE Head(buf).size + BufferedLength(Tail(buf))

\* stdin.write(chunk) of a Node.js stream: the chunk is always buffered, and
\* the call returns whether the buffered amount is still below the limit.
StdinWrite(pipe, chunk) ==
    LET ok == BufferedLength(pipe.buf) + chunk.size < HighWaterMark
    IN  [pipe |-> [buf |-> Append(pipe.buf, chunk),
                   needDrain |-> pipe.needDrain \/ ~ok,
                   drained |-> FALSE],
         canWrite |-> ok]

\* What writeChunk returns for what stdin.write returned.
WriteChunkResultAlwaysTrue(canWrite) == TRUE

\* if (!canWrite) return false; return true
WriteChunkResult(canWrite) == canWrite

\* const stdin = this.stdinProcesses.get(roomCode); stdin && !stdin.destroyed.
\* The stdin of a subprocess is destroyed when the subprocess has exited.
OpenStdin(c) ==
    c \in DOMAIN stdinProcesses /\ procs[stdinProcesses[c]] # "closed"

\* writeChunk(c, chunk): the chunk goes to the stdin registered for c and
\* the pipe's answer is returned; without a registered open stdin the chunk
\* goes nowhere and false is returned.
WriteChunk(c, size) ==
    /\ Len(chunkLog) < MaxChunks
    /\ LET chunk == [n |-> Len(chunkLog) + 1, size |-> size]
           k == stdinProcesses[c]
           w == StdinWrite(pipes[k], chunk)
       IN  IF OpenStdin(c)
           THEN /\ pipes' = [pipes EXCEPT ![k] = w.pipe]
                /\ chunkLog' = Append(chunkLog,
                                      [code |-> c, chunk |-> chunk, pipe |-> k,
                                       afterDrain |-> pipes[k].drained,
                                       ret |-> WriteChunkResult(w.canWrite)])
           ELSE /\ pipes' = pipes
                /\ chunkLog' = Append(chunkLog,
                                      [code |-> c, chunk |-> chunk, pipe |-> 0,
                                       afterDrain |-> FALSE, ret |-> FALSE])
    /\ UNCHANGED <<calls, procs, activeStreams, stdinProcesses, streamDirs,
                   cleanupTimers, notifyRequests, uncaught, fed, viewerVars>>
    /\ ServerUntouched([op |-> "writeChunk", code |-> c], <<>>)

\* The running subprocess k reads the oldest buffered chunk from its stdin;
\* when that empties a buffer that had reported full, 'drain' is emitted.
StdinRead(k) ==
    /\ procs[k] = "running"
    /\ pipes[k].buf # <<>>
    /\ fed' = [fed EXCEPT ![k] = Append(@, Head(pipes[k].buf))]
    /\ pipes' = [pipes EXCEPT
                   ![k] = IF Len(pipes[k].buf) = 1 /\ pipes[k].needDrain
                          THEN [buf |-> <<>>, needDrain |-> FALSE, drained |-> TRUE]
                          ELSE [buf |-> Tail(pipes[k].buf),
                                needDrain |-> pipes[k].needDrain,
                                drained |-> pipes[k].drained]]
    /\ UNCHANGED <<calls, procs, activeStreams, stdinProcesses, streamDirs,
                   cleanupTimers, notifyRequests, uncaught, chunkLog, viewerVars>>
    /\ ServerUntouched([op |-> "stdin-read", call |-> k], <<>>)

\* stopStream(c): end and forget the stdin stream, then kill and forget the
\* process and defer the removal of the room directory.
StopStreamState(c) ==
    /\ stdinProcesses' = IF OpenStdin(c) THEN MapDelete(stdinProcesses, c)
                         ELSE stdinProcesses
    /\ IF c \in DOMAIN activeStreams
       THEN /\ procs' = Kill(procs, activeStreams[c])
            /\ activeStreams' = MapDelete(activeStreams, c)
            /\ cleanupTimers' = [cleanupTimers EXCEPT ![c] = @ + 1]
       ELSE UNCHANGED <<procs, activeStreams, cleanupTimers>>

\* stopStream that signals the subprocess before it ends its input.
StopStreamStepsKillFirst(c) ==
    (IF c \in DOMAIN activeStreams THEN <<"kill", "setTimeout">> ELSE <<>>)
    \o (IF OpenStdin(c) THEN <<"stdin.end">> ELSE <<>>)

\* What stopStream(c) does to the subprocess and the timers, in the order
\* of the code: the registered open stdin is ended; then the registered
\* process is signalled and the cleanup is scheduled.
StopStreamSteps(c) ==
    (IF OpenStdin(c) THEN <<"stdin.end">> ELSE <<>>)
    \o (IF c \in DOMAIN activeStreams THEN <<"kill", "setTimeout">> ELSE <<>>)

\* stopStream(c) called from outside the service.
StopStreamService(c) ==
    /\ StopStreamState(c)
    /\ UNCHANGED <<calls, streamDirs, notifyRequests>>
    /\ ServiceEvent([op |-> "stopStream", code |-> c, did |-> StopStreamSteps(c)],
                    <<>>)

(* viewers and auto-stop *)

\* notifyViewerCountUpdate: the web occupant of the room, when its socket
\* is open, is told the new count.
NotifyViewerCountUpdate(c, n) ==
    IF c \in DOMAIN rooms
    THEN Send(readyState, rooms[c].web,
              [type |-> "viewer_count_update", roomCode |-> c, viewerCount |-> n])
    ELSE <<>>

\* addViewer that leaves a pending auto-stop timer alone.
CancelAutoStopKeeping(timers, c) == timers

\* clearTimeout(this.autoStopTimers.get(c)); this.autoStopTimers.delete(c)
CancelAutoStop(timers, c) == [timers EXCEPT ![c] = "none"]

\* scheduleAutoStop(c): the timer of c, if any, is cleared and a new one is
\* armed and stored.
ScheduleAutoStop(timers, c) == [timers EXCEPT ![c] = "armed"]

\* What the actions of the viewer tracking leave alone.
ViewerEvent(ev, out) ==
    /\ ServerUntouched(ev, out)
    /\ UNCHANGED <<calls, streamDirs, notifyRequests, uncaught, pipeVars>>

\* The part of addViewer(c) that changes the viewer tracking.
AddViewerState(c) ==
    /\ viewerCounts' = [viewerCounts EXCEPT ![c] = @ + 1]
    /\ lastViewerActivity' = MapSet(lastViewerActivity, c, now)
    /\ autoStopTimers' = CancelAutoStop(autoStopTimers, c)

\* addViewer(c)
AddViewer(c) ==
    /\ viewerCounts[c] < MaxViewers
    /\ AddViewerState(c)
    /\ UNCHANGED <<procs, activeStreams, stdinProcesses, cleanupTimers>>
    /\ ViewerEvent([op |-> "addViewer", code |-> c],
                   NotifyViewerCountUpdate(c, viewerCounts[c] + 1))

\* removeViewer(c): the count never goes below zero; at zero, with a
\* registered session, the auto-stop timer is armed.
RemoveViewer(c) ==
    LET newCount == IF viewerCounts[c] > 0 THEN viewerCounts[c] - 1 ELSE 0
    IN  /\ viewerCounts' = [viewerCounts EXCEPT ![c] = newCount]
        /\ lastViewerActivity' = MapSet(lastViewerActivity, c, now)
        /\ autoStopTimers' = IF newCount = 0 /\ c \in DOMAIN activeStreams
                             THEN ScheduleAutoStop(autoStopTimers, c)
                             ELSE autoStopTimers
        /\ UNCHANGED <<procs, activeStreams, stdinProcesses, cleanupTimers>>
        /\ ViewerEvent([op |-> "removeViewer", code |-> c],
                       NotifyViewerCountUpdate(c, newCount))

\* updateViewerActivity(c): a request for the stream counts as a viewer
\* when none is counted.
UpdateViewerActivity(c) ==
    /\ IF viewerCounts[c] = 0
       THEN AddViewerState(c)
       ELSE /\ lastViewerActivity' = MapSet(lastViewerActivity, c, now)
            /\ UNCHANGED <<viewerCounts, autoStopTimers>>
    /\ UNCHANGED <<procs, activeStreams, stdinProcesses, cleanupTimers>>
    /\ ViewerEvent([op |-> "updateViewerActivity", code |-> c],
                   IF viewerCounts[c] = 0
                   THEN NotifyViewerCountUpdate(c, 1) ELSE <<>>)

\* The auto-stop timer of c fires: with no viewer counted and a registered
\* session the stream is stopped.  The fired timer stays in the map.
AutoStopFires(c) ==
    /\ autoStopTimers[c] = "armed"
    /\ autoStopTimers' = [autoStopTimers EXCEPT ![c] = "fired"]
    /\ IF viewerCounts[c] = 0 /\ c \in DOMAIN activeStreams
       THEN StopStreamState(c)
       ELSE UNCHANGED <<procs, activeStreams, stdinProcesses, cleanupTimers>>
    /\ UNCHANGED <<viewerCounts, lastViewerActivity>>
    /\ ViewerEvent([op |-> "auto-stop-timer", code |-> c,
                    stopped |-> viewerCounts[c] = 0 /\ c \in DOMAIN activeStreams],
                   <<>>)

\* The rooms whose viewers the monitor finds inactive.
InactiveRooms ==
    {c \in DOMAIN lastViewerActivity :
        now - lastViewerActivity[c] > InactiveThreshold /\ viewerCounts[c] > 0}

\* The monitoring interval of startViewerMonitoring: the count of every
\* room without activity for more than the threshold is reset, and with a
\* registered session the auto-stop timer is armed.
ViewerMonitor ==
    /\ viewerCounts' = [c \in Keys |-> IF c \in InactiveRooms THEN 0
                                       ELSE viewerCounts[c]]
    /\ autoStopTimers' = [c \in Keys |->
                            IF c \in InactiveRooms /\ c \in DOMAIN activeStreams
                            THEN "armed" ELSE autoStopTimers[c]]
    /\ UNCHANGED <<lastViewerActivity, procs, activeStreams, stdinProcesses,
                   cleanupTimers>>
    /\ ViewerEvent([op |-> "viewer-monitor"], <<>>)

\* A deferred cleanupRoom(c) fires: the room directory is removed.
CleanupRoom(c) ==
    /\ cleanupTimers[c] > 0
    /\ cleanupTimers' = [cleanupTimers EXCEPT ![c] = @ - 1]
    /\ streamDirs' = [streamDirs EXCEPT ![c] = "none"]
    /\ UNCHANGED <<calls, procs, activeStreams, stdinProcesses, notifyRequests>>
    /\ ServiceEvent([op |-> "cleanupRoom", code |-> c], <<>>)

\* A notification that reaches the android occupant only through an open
\* web occupant, as notifyWebClientStreamReady does.
NotifyOccupantsWebGated(c) ==
    IF /\ ToUpperCase(c) \in DOMAIN rooms
       /\ rooms[ToUpperCase(c)].web # Null
       /\ readyState[rooms[ToUpperCase(c)].web] = "OPEN"
    THEN Send(readyState, rooms[ToUpperCase(c)].web, StreamReady(ToUpperCase(c)))
         \o Send(readyState, rooms[ToUpperCase(c)].android,
                 StreamReady(ToUpperCase(c)))
    ELSE <<>>

\* What the handler of /api/notify-stream-ready sends: stream_ready to the
\* android occupant, if any, then to the web occupant, if any.
NotifyOccupants(c) ==
    IF ToUpperCase(c) \in DOMAIN rooms
    THEN Send(readyState, rooms[ToUpperCase(c)].android,
              StreamReady(ToUpperCase(c)))
         \o Send(readyState, rooms[ToUpperCase(c)].web,
                 StreamReady(ToUpperCase(c)))
    ELSE <<>>

\* POST /api/notify-stream-ready arrives at the signaling server: both
\* occupants of the room, android first, are sent stream_ready.
NotifyStreamReady(c) ==
    /\ c \in notifyRequests
    /\ notifyRequests' = notifyRequests \ {c}
    /\ UNCHANGED <<calls, procs, activeStreams, stdinProcesses, streamDirs,
                   cleanupTimers>>
    /\ ServiceEvent([op |-> "notify-stream-ready", code |-> c],
                    NotifyOccupants(c))

\* The transcode supervisor by itself: its callers, timers and subprocesses.
TranscodeNext ==
    \/ \E k \in CallIds, c \in Keys, o \in SpawnOutcomes : StartStreamFromStdin(k, c, o)
    \/ \E k \in CallIds : StdinReady(k)
    \/ \E k \in CallIds : SpawnTimeout(k)
    \/ \E k \in CallIds : StdinTimeout(k)
    \/ \E k \in CallIds : FfmpegClose(k)
    \/ \E k \in CallIds : FfmpegError(k)
    \/ \E c \in Keys : PlaylistAppears(c)
    \/ \E k \in CallIds : PlaylistFound(k)
    \/ \E k \in CallIds : PlaylistTimeout(k)
    \/ \E c \in Keys : StopStreamService(c)
    \/ \E c \in Keys : CleanupRoom(c)
    \/ \E c \in Keys : NotifyStreamReady(c)

TranscodeSpec == Init /\ [][TranscodeNext]_vars

\* The signaling server and the transcode supervisor side by side: rooms are
\* created and joined, streams started and stopped; the clock stands still.
StreamNext ==
    \/ \E ws \in Sockets : Connect(ws)
    \/ \E ws \in Sockets, raw \in RawCodes : CreateRoom(ws, raw, 0)
    \/ \E ws \in Sockets, raw \in RawCodes : JoinRoom(ws, raw, FALSE)
    \/ \E ws \in Sockets : StartStream(ws)
    \/ \E ws \in Sockets : StopStream(ws)
    \/ \E ws \in Sockets : OnClose(ws)
    \/ TranscodeNext

StreamSpec == Init /\ [][StreamNext]_vars

\* The input path of the supervisor: sessions are started and stopped, their
\* subprocesses exit, and chunks are written to them and read by them.
ChunkNext ==
    \/ \E k \in CallIds, c \in Keys, o \in {"waits", "writable"} :
          StartStreamFromStdin(k, c, o)
    \/ \E k \in CallIds : StdinReady(k)
    \/ \E k \in CallIds : FfmpegClose(k)
    \/ \E c \in Keys : StopStreamService(c)
    \/ \E c \in Keys, size \in ChunkSizes : WriteChunk(c, size)
    \/ \E k \in CallIds : StdinRead(k)

ChunkSpec == Init /\ [][ChunkNext]_vars

\* The viewer tracking of the supervisor: sessions start, stop and exit,
\* viewers come and go, time passes, the timers fire.
ViewerNext ==
    \/ \E k \in CallIds, c \in Keys : StartStreamFromStdin(k, c, "writable")
    \/ \E k \in CallIds : FfmpegClose(k)
    \/ \E c \in Keys : StopStreamService(c)
    \/ \E c \in Keys : AddViewer(c)
    \/ \E c \in Keys : RemoveViewer(c)
    \/ \E c \in Keys : UpdateViewerActivity(c)
    \/ \E c \in Keys : AutoStopFires(c)
    \/ ViewerMonitor
    \/ \E d \in TickSteps : Tick(d)

ViewerSpec == Init /\ [][ViewerNext]_vars

---------------------------------------------------------------------------
(* The server *)

\* One step of the server for the messages env lets the clients send.
Step(env) ==
    \/ \E ws \in Sockets : Connect(ws)
    \/ \E d \in env.steps : Tick(d)
    \/ \E ws \in Sockets : InvalidJson(ws)
    \/ \E ws \in Sockets, type \in env.unknown : UnknownType(ws, type)
    \/ \E ws \in Sockets, raw \in RawCodes \cup {NoCode}, skew \in env.skews :
          CreateRoom(ws, raw, skew)
    \/ \E ws \in Sockets, raw \in RawCodes \cup {NoCode} : JoinRoom(ws, raw, env.track)
    \/ \E ws \in Sockets, id \in SessionIds \cup {NoCode}, role \in Roles \cup {"tv"} :
          LegacyJoin(ws, id, role)
    \/ \E ws \in Sockets, type \in env.types, p \in env.payloads : Relay(ws, type, p)
    \/ \E ws \in Sockets, p \in env.payloads : Command(ws, "c1", p)
    \/ \E ws \in Sockets : CountdownStart(ws)
    \/ \E ws \in Sockets : StartStream(ws)
    \/ \E ws \in Sockets : StopStream(ws)
    \/ \E ws \in Sockets : Leave(ws)
    \/ \E ws \in Sockets : OnError(ws)
    \/ \E ws \in Sockets : OnClose(ws)
    \/ \E ws \in Sockets : Terminate(ws)
    \/ Sweep

\* The room lifecycle under a clock: one relayed message type stands for the
\* four, which share a handler and leave the room table alone.
LifecycleEnv ==
    [types |-> {"offer"}, payloads |-> {"p1"}, unknown |-> {"ping"},
     skews |-> ClientSkews, steps |-> TickSteps, track |-> FALSE]

Next == Step(LifecycleEnv)

\* The same server with the history of joins recorded, for clients whose
\* clocks agree with the server's.
HistoryEnv ==
    [types |-> {"offer"}, payloads |-> {"p1"}, unknown |-> {"ping"},
     skews |-> {0}, steps |-> TickSteps, track |-> TRUE]

HistoryNext == Step(HistoryEnv)

HistorySpec == Init /\ [][HistoryNext]_vars

\* The relay with every message type and two payloads, for clients whose
\* rooms do not expire while they talk: the clock stands still.
RelayNext ==
    \/ \E ws \in Sockets : Connect(ws)
    \/ \E ws \in Sockets : InvalidJson(ws)
    \/ \E ws \in Sockets, type \in UnknownTypes : UnknownType(ws, type)
    \/ \E ws \in Sockets, raw \in RawCodes : CreateRoom(ws, raw, 0)
    \/ \E ws \in Sockets, raw \in RawCodes : JoinRoom(ws, raw, FALSE)
    \/ \E ws \in Sockets, id \in SessionIds, role \in Roles : LegacyJoin(ws, id, role)
    \/ \E ws \in Sockets, type \in RelayTypes, p \in Payloads : Relay(ws, type, p)
    \/ \E ws \in Sockets, p \in Payloads : Command(ws, "c1", p)
    \/ \E ws \in Sockets : CountdownStart(ws)
    \/ \E ws \in Sockets : StartStream(ws)
    \/ \E ws \in Sockets : StopStream(ws)
    \/ \E ws \in Sockets : Leave(ws)
    \/ \E ws \in Sockets : OnError(ws)
    \/ \E ws \in Sockets : OnClose(ws)
    \/ \E ws \in Sockets : Terminate(ws)

RelaySpec == Init /\ [][RelayNext]_vars

\* The relay between the two sockets of a room, with its history.
OrderTypes == {"offer", "ice"}
OrderPayloads == {"p1"}

OrderNext ==
    \/ \E ws \in Sockets : Connect(ws)
    \/ \E ws \in Sockets, raw \in RawCodes : CreateRoom(ws, raw, 0)
    \/ \E ws \in Sockets, raw \in RawCodes : JoinRoom(ws, raw, FALSE)
    \/ \E ws \in Sockets, t \in OrderTypes, p \in OrderPayloads :
          RelayLogged(ws, t, p)
    \/ \E ws \in Sockets : OnClose(ws)
    \/ \E ws \in Sockets : Terminate(ws)

OrderSpec == Init /\ [][OrderNext]_vars

\* What legacy clients put in sessionId: a code as the server stores it, and
\* the same code as a client types it.
TypedSessionIds == SessionIds \cup RawCodes

\* Rooms made by create-room and by legacy joins whose session ids are not
\* all in the server's normal form; the clock stands still.
CodeNext ==
    \/ \E ws \in Sockets : Connect(ws)
    \/ \E ws \in Sockets, raw \in RawCodes : CreateRoom(ws, raw, 0)
    \/ \E ws \in Sockets, raw \in RawCodes : JoinRoom(ws, raw, FALSE)
    \/ \E ws \in Sockets, id \in TypedSessionIds, role \in Roles :
          LegacyJoin(ws, id, role)
    \/ \E ws \in Sockets : Leave(ws)
    \/ \E ws \in Sockets : OnClose(ws)

CodeSpec == Init /\ [][CodeNext]_vars

\* Rooms whose clients connect, pair and disconnect while the sweep runs.
LiveNext ==
    \/ \E ws \in Sockets : Connect(ws)
    \/ \E ws \in Sockets, raw \in RawCodes : CreateRoom(ws, raw, 0)
    \/ \E ws \in Sockets, raw \in RawCodes : JoinRoom(ws, raw, FALSE)
    \/ \E ws \in Sockets : Terminate(ws)
    \/ \E ws \in Sockets : OnClose(ws)
    \/ \E d \in TickSteps : Tick(d)
    \/ Sweep

\* The same server with its scheduling: the interval timer of the sweep
\* keeps firing, time passes, and a socket that is closing gets its close
\* event.
LiveSpec ==
    /\ Init
    /\ [][LiveNext]_vars
    /\ WF_vars(Sweep)
    /\ WF_vars(\E d \in TickSteps : Tick(d))
    /\ \A ws \in Sockets : WF_vars(readyState[ws] = "CLOSING" /\ OnClose(ws))

Spec == Init /\ [][Next]_vars

---------------------------------------------------------------------------
(* Properties *)

\* out delivers obj to ws.
Delivers(out, ws, obj) == \E i \in DOMAIN out : out[i] = [to |-> ws, msg |-> obj]

\* out delivers a message of this type to ws.
DeliversType(out, ws, type) ==
    \E i \in DOMAIN out : out[i].to = ws /\ out[i].msg.type = type

Occupied(room) == room.android # Null \/ room.web # Null

\* The step just taken handled a join-room of ws for a code normalized to c.
JoinRoomStep(ws, c) ==
    /\ last'.op = "join-room"
    /\ last'.ws = ws
    /\ last'.roomCode # NoCode
    /\ ToUpperCase(last'.roomCode) = c

\* The step just taken handled a create-room of ws for a code normalized to c.
CreateRoomStep(ws, c) ==
    /\ last'.op = "create-room"
    /\ last'.ws = ws
    /\ last'.roomCode # NoCode
    /\ ToUpperCase(last'.roomCode) = c

AlreadyUsed == [type |-> "room-already-used", message |-> "Room already used"]

(* C1 *)

\* C1 as claimed: once a join-room for c has succeeded, every later
\* join-room for c, whatever happened in between, is answered
\* room-already-used.
C1_AsClaimed ==
    [][\A ws \in Sockets, c \in Keys :
         (joiner[c] # Null /\ JoinRoomStep(ws, c))
            => DeliversType(sent', ws, "room-already-used")]_vars

\* C1 amended: a successful join-room sets used; used stays true for as long
\* as the room is in the table and is not reclaimed by a create-room after
\* its expiry; and every join-room for a room that is in the table, used and
\* not expired is answered room-already-used and changes nothing.
C1_UsedRoomRejectsJoin ==
    [][\A ws \in Sockets, c \in Keys :
         /\ (JoinRoomStep(ws, c) /\ DeliversType(sent', ws, "room-joined"))
               => (c \in DOMAIN rooms' /\ rooms'[c].used)
         /\ (c \in DOMAIN rooms /\ rooms[c].used /\ c \in DOMAIN rooms')
               => \/ rooms'[c].used
                  \/ (last'.op = "create-room" /\ Expired(rooms[c], now))
         /\ (JoinRoomStep(ws, c) /\ c \in DOMAIN rooms /\ rooms[c].used
               /\ ~Expired(rooms[c], now))
               => /\ sent' = <<[to |-> ws, msg |-> AlreadyUsed]>>
                  /\ UNCHANGED <<rooms, wsRoomCode, wsRole>>]_vars

\* A socket other than the one that joined is answered room-already-used.
C1_Witness ==
    \E ws \in Sockets, c \in Keys :
       /\ last.op = "join-room"
       /\ last.ws = ws
       /\ sent = <<[to |-> ws, msg |-> AlreadyUsed]>>
       /\ joiner[c] \notin {Null, ws}
       /\ c \in DOMAIN rooms
       /\ rooms[c].used

(* C2 *)

NoEmptyRoom(rm) == \A c \in DOMAIN rm : Occupied(rm[c])

\* C2 as claimed: no room of the table has both slots empty, and once room c
\* has been removed (its creator has disconnected and c is not in the table)
\* the code gets back into the table only by a create-room, join-room being
\* answered room-not-found until then.
C2_AsClaimed ==
    [][/\ NoEmptyRoom(rooms')
       /\ \A c \in Keys :
            (/\ c \notin DOMAIN rooms
             /\ \E w \in Sockets : readyState[w] = "CLOSED" /\ wsRoomCode[w] = c
             /\ c \in DOMAIN rooms')
            => last'.op = "create-room"
       /\ \A ws \in Sockets, c \in Keys :
            (JoinRoomStep(ws, c) /\ c \notin DOMAIN rooms)
               => DeliversType(sent', ws, "room-not-found")]_vars

\* C2 amended: no room of the table has both slots empty (a step that
\* empties both slots removes the room); join-room for a code that is not in
\* the table is answered room-not-found and creates nothing; and such a code
\* gets back into the table only by a create-room or by a legacy join with
\* the code as sessionId.
C2_EmptyRoomRemoved ==
    [][/\ NoEmptyRoom(rooms')
       /\ \A c \in Keys :
            (c \notin DOMAIN rooms /\ c \in DOMAIN rooms')
               => last'.op \in {"create-room", "join"}
       /\ \A ws \in Sockets, c \in Keys :
            (JoinRoomStep(ws, c) /\ c \notin DOMAIN rooms)
               => /\ sent' = <<[to |-> ws,
                                msg |-> [type |-> "room-not-found",
                                         message |-> "Room not found"]]>>
                  /\ UNCHANGED rooms]_vars

\* The creator of c has disconnected, the room is gone, and a join-room for
\* c has just been answered room-not-found.
C2_Witness ==
    \E ws, creator \in Sockets, c \in Keys :
       /\ last.op = "join-room"
       /\ last.ws = ws
       /\ DeliversType(sent, ws, "room-not-found")
       /\ readyState[creator] = "CLOSED"
       /\ wsRoomCode[creator] = c
       /\ wsRole[creator] = "web"
       /\ c \notin DOMAIN rooms

(* C3 *)

\* C3 as claimed: a sweep, a join-room for c or a create-room for c never
\* removes room c when it is expired and one of its slots is occupied: the
\* room stays, with its occupants, and its deadline is pushed past now.
C3_AsClaimed ==
    [][\A c \in Keys :
         (/\ c \in DOMAIN rooms
          /\ Expired(rooms[c], now)
          /\ Occupied(rooms[c])
          /\ \/ last'.op = "sweep"
             \/ \E ws \in Sockets : JoinRoomStep(ws, c)
             \/ \E ws \in Sockets : CreateRoomStep(ws, c))
         => /\ c \in DOMAIN rooms'
            /\ rooms'[c].android = rooms[c].android
            /\ rooms'[c].web = rooms[c].web
            /\ rooms'[c].expiresAt > now]_vars

(* C4 *)

\* C4: a sweep deletes every room that is expired with both slots empty,
\* keeps every room that is expired with an occupied slot and sets its
\* expiresAt past now (to now + 60000) with nothing else changed, and leaves
\* every room that is not expired as it is.
C4_SweepCases ==
    [][last'.op = "sweep" =>
         /\ DOMAIN rooms' \subseteq DOMAIN rooms
         /\ \A c \in DOMAIN rooms :
              /\ (Expired(rooms[c], now) /\ ~Occupied(rooms[c]))
                    => c \notin DOMAIN rooms'
              /\ (Expired(rooms[c], now) /\ Occupied(rooms[c]))
                    => /\ c \in DOMAIN rooms'
                       /\ rooms'[c].expiresAt > now
                       /\ rooms'[c] = [rooms[c] EXCEPT !.expiresAt = now + SweepExtend]
              /\ ~Expired(rooms[c], now)
                    => (c \in DOMAIN rooms' /\ rooms'[c] = rooms[c])]_vars

\* A sweep has just extended an occupied room.
C4_Witness ==
    /\ last.op = "sweep"
    /\ \E c \in DOMAIN rooms :
          Occupied(rooms[c]) /\ rooms[c].expiresAt = now + SweepExtend

(* C5 *)

\* C5: join-room answers with the first of not-found, expired, already-used,
\* not-ready whose condition holds, and joins only when none does.
C5_RejectionOrder ==
    [][\A ws \in Sockets, c \in Keys :
         JoinRoomStep(ws, c) =>
            LET reply == sent'[1].msg.type
            IN  /\ Len(sent') >= 1
                /\ sent'[1].to = ws
                /\ c \notin DOMAIN rooms => reply = "room-not-found"
                /\ c \in DOMAIN rooms =>
                     /\ Expired(rooms[c], now) => reply = "room-expired"
                     /\ (~Expired(rooms[c], now) /\ rooms[c].used)
                           => reply = "room-already-used"
                     /\ (~Expired(rooms[c], now) /\ ~rooms[c].used
                           /\ rooms[c].web = Null)
                           => reply = "room-not-ready"
                     /\ (~Expired(rooms[c], now) /\ ~rooms[c].used
                           /\ rooms[c].web # Null)
                           => reply = "room-joined"]_vars

\* A used room whose creator slot is empty has just answered a join-room
\* with room-already-used.
C5_Witness ==
    \E ws \in Sockets, c \in DOMAIN rooms :
       /\ last.op = "join-room"
       /\ last.ws = ws
       /\ sent = <<[to |-> ws, msg |-> AlreadyUsed]>>
       /\ rooms[c].used
       /\ rooms[c].web = Null

(* C6 *)

RoomJoined(c) == [type |-> "room-joined", roomCode |-> c, peerReady |-> TRUE]
PeerJoined(c) == [type |-> "peer-joined", roomCode |-> c, role |-> "android"]

\* What a successful join-room of ws on room c leaves in the room and on the
\* socket.
JoinEffect(ws, c) ==
    /\ c \in DOMAIN rooms'
    /\ rooms'[c] = [android |-> ws, web |-> rooms[c].web,
                    createdAt |-> rooms[c].createdAt,
                    expiresAt |-> now + ActiveWindow, used |-> TRUE]
    /\ wsRoomCode'[ws] = c
    /\ wsRole'[ws] = "android"
    /\ Delivers(sent', ws, RoomJoined(c))

\* C6: a successful join-room on room c, in one step, stores the joiner in
\* the android slot, sets used, sets expiresAt to now + 300000, binds the
\* socket's roomCode and role, leaves the creator slot and createdAt alone,
\* and sends exactly room-joined (peerReady) to the joiner followed by
\* peer-joined to the occupant of the creator slot (send reaches a socket
\* that is open).
C6_JoinEffect ==
    [][\A ws \in Sockets, c \in Keys :
         (JoinRoomStep(ws, c) /\ DeliversType(sent', ws, "room-joined"))
            => /\ JoinEffect(ws, c)
               /\ sent' = <<[to |-> ws, msg |-> RoomJoined(c)]>>
                          \o (IF readyState[rooms[c].web] = "OPEN"
                              THEN <<[to |-> rooms[c].web, msg |-> PeerJoined(c)]>>
                              ELSE <<>>)
               /\ UNCHANGED readyState]_vars

\* A socket has just joined the room of another, open socket.
C6_Witness ==
    \E ws, web \in Sockets, c \in DOMAIN rooms :
       /\ last.op = "join-room"
       /\ last.ws = ws
       /\ web # ws
       /\ sent = <<[to |-> ws, msg |-> RoomJoined(c)],
                   [to |-> web, msg |-> PeerJoined(c)]>>
       /\ rooms[c].android = ws
       /\ rooms[c].web = web
       /\ rooms[c].used
       /\ rooms[c].expiresAt = now + ActiveWindow

(* C7 *)

\* C7 as claimed: in a used room, a socket that becomes the occupant of the
\* joiner slot is the socket that performed the successful join-room.
C7_AsClaimed ==
    [][\A c \in Keys :
         (/\ c \in DOMAIN rooms
          /\ rooms[c].used
          /\ c \in DOMAIN rooms'
          /\ rooms'[c].used
          /\ rooms'[c].android # rooms[c].android
          /\ rooms'[c].android # Null)
         => rooms'[c].android = joiner[c]]_vars

(* C8 *)

AlreadyExists == ErrorMsg("Room code already exists")
RoomCreated(c) == [type |-> "room-created", roomCode |-> c]

\* C8 as claimed: create-room for a code in the table and not expired is
\* rejected and changes nothing.
C8_AsClaimed ==
    [][\A ws \in Sockets, c \in Keys :
         (CreateRoomStep(ws, c) /\ c \in DOMAIN rooms /\ ~Expired(rooms[c], now))
            => /\ sent' = <<[to |-> ws, msg |-> AlreadyExists]>>
               /\ UNCHANGED <<rooms, wsRoomCode, wsRole>>]_vars

\* C8 amended: create-room for a code in the table and not expired is
\* rejected with 'Room code already exists', nothing changed, when the
\* creator slot holds an open socket other than the requester; answered
\* room-created, nothing changed, when it holds the requester, open; and
\* when it is empty or its socket is not open the requester takes the slot:
\* room-created, expiresAt = now + 300000, the other fields kept.
C8_ExistingRoom ==
    [][\A ws \in Sockets, c \in Keys :
         (CreateRoomStep(ws, c) /\ c \in DOMAIN rooms /\ ~Expired(rooms[c], now))
            => LET web == rooms[c].web
                   open == web # Null /\ readyState[web] = "OPEN"
               IN  /\ (open /\ web # ws)
                         => /\ sent' = <<[to |-> ws, msg |-> AlreadyExists]>>
                            /\ UNCHANGED <<rooms, wsRoomCode, wsRole>>
                   /\ (open /\ web = ws)
                         => /\ sent' = <<[to |-> ws, msg |-> RoomCreated(c)]>>
                            /\ UNCHANGED <<rooms, wsRoomCode, wsRole>>
                   /\ ~open
                         => /\ sent' = <<[to |-> ws, msg |-> RoomCreated(c)]>>
                            /\ rooms' = [rooms EXCEPT
                                           ![c].web = ws,
                                           ![c].expiresAt = now + ActiveWindow]
                            /\ wsRoomCode'[ws] = c
                            /\ wsRole'[ws] = "web"]_vars

\* A create-room for the live room of another open socket has just been
\* rejected.
C8_Witness ==
    \E ws \in Sockets, c \in DOMAIN rooms :
       /\ last.op = "create-room"
       /\ last.ws = ws
       /\ sent = <<[to |-> ws, msg |-> AlreadyExists]>>
       /\ rooms[c].web \notin {Null, ws}
       /\ readyState[rooms[c].web] = "OPEN"

(* C9 *)

\* C9 as claimed: when a create-room of socket a has just made room c (a is
\* in the creator slot of a room nobody has joined, and was answered
\* room-created), a create-room for c that another open socket b sends next
\* is answered with an error, a stays in the creator slot, and no code is
\* left marked as being created.
C9_AsClaimed ==
    [][\A a, b \in Sockets, c \in Keys :
         (/\ last.op = "create-room"
          /\ last.ws = a
          /\ Delivers(sent, a, RoomCreated(c))
          /\ c \in DOMAIN rooms
          /\ rooms[c].web = a
          /\ rooms[c].android = Null
          /\ ~rooms[c].used
          /\ readyState[a] = "OPEN"
          /\ a # b
          /\ CreateRoomStep(b, c))
         => /\ DeliversType(sent', b, "error")
            /\ ~DeliversType(sent', b, "room-created")
            /\ c \in DOMAIN rooms'
            /\ rooms'[c].web = a
            /\ roomCreationInProgress' = {}]_vars

(* C10 *)

RoomClosed(c) == [type |-> "room_closed", roomCode |-> c, reason |-> "peer_left"]
Left == [type |-> "left", message |-> "Successfully left room"]

\* The step just taken handled a leave of ws, bound to room c of the table.
LeaveStep(ws, c) ==
    /\ last'.op = "leave"
    /\ last'.ws = ws
    /\ Bound(ws)
    /\ wsRoomCode[ws] = c
    /\ c \in DOMAIN rooms

\* C10: a leave of a socket bound to room c of the table sends room_closed
\* (peer_left) to the occupant of the other slot, if any (send reaches a
\* socket that is open), removes the room whether or not the other slot is
\* occupied, clears the leaver's roomCode and role, and answers left.
C10_LeaveEffect ==
    [][\A ws \in Sockets, c \in Keys :
         LeaveStep(ws, c)
            => LET peer == GetPeer(rooms, c, wsRole[ws])
               IN  /\ sent' = (IF peer # Null /\ readyState[peer] = "OPEN"
                               THEN <<[to |-> peer, msg |-> RoomClosed(c)]>>
                               ELSE <<>>)
                              \o <<[to |-> ws, msg |-> Left]>>
                   /\ c \notin DOMAIN rooms'
                   /\ wsRoomCode'[ws] = NoCode
                   /\ wsRole'[ws] = NoRole]_vars

\* A socket has just left a room whose other slot another open socket held.
C10_Witness ==
    \E ws, peer \in Sockets, c \in Keys :
       /\ last.op = "leave"
       /\ last.ws = ws
       /\ peer # ws
       /\ sent = <<[to |-> peer, msg |-> RoomClosed(c)], [to |-> ws, msg |-> Left]>>
       /\ wsRoomCode[peer] = c
       /\ c \notin DOMAIN rooms
       /\ wsRoomCode[ws] = NoCode

(* C11 *)

PeerLeft(c, r) == [type |-> "peer-left", roomCode |-> c, role |-> r]

\* The step just taken is the close or the error event of x, bound to room c
\* of the table.
DisconnectStep(x, c) ==
    /\ last'.op \in {"close", "error"}
    /\ last'.ws = x
    /\ Bound(x)
    /\ wsRoomCode[x] = c
    /\ c \in DOMAIN rooms

\* C11 as claimed: a disconnect of x, bound to (c, r), empties slot r only
\* when x is its occupant, leaves the other slot and a slot held by another
\* socket alone, sends peer-left to the occupant that remains, and removes
\* the room exactly when both slots are then empty.
C11_AsClaimed ==
    [][\A x \in Sockets, c \in Keys :
         DisconnectStep(x, c)
            => LET r == wsRole[x]
                   room == rooms[c]
                   after == IF room[r] = x THEN [room EXCEPT ![r] = Null] ELSE room
                   peer == GetPeer(rooms, c, r)
               IN  /\ IF after.android = Null /\ after.web = Null
                      THEN c \notin DOMAIN rooms'
                      ELSE c \in DOMAIN rooms' /\ rooms'[c] = after
                   /\ (room[r] = x /\ peer # Null /\ readyState'[peer] = "OPEN")
                         => Delivers(sent', peer, PeerLeft(c, r))]_vars

(* C12 *)

PeerMessageTypes == RelayTypes \cup {"command", "countdown-start"}

\* The step just taken handled a message of one of the given types from ws,
\* bound to a room and a role.
BoundStep(ws, types) ==
    /\ last'.op \in types
    /\ last'.ws = ws
    /\ Bound(ws)

\* C12 as claimed: offer, answer, ice, cmd, command and countdown-start from
\* a bound sender are delivered at most once, to the occupant of the other
\* role's slot of the sender's room and to nobody else: not to the sender,
\* not to a socket of another room.
C12_AsClaimed ==
    [][\A ws \in Sockets :
         BoundStep(ws, PeerMessageTypes)
            => LET peer == GetPeer(rooms, wsRoomCode[ws], wsRole[ws])
                   relayed == SelectSeq(sent', LAMBDA d : d.msg.type # "error")
               IN  /\ Len(relayed) <= 1
                   /\ \A i \in 1..Len(relayed) :
                         /\ relayed[i].to = peer
                         /\ relayed[i].to # ws
                         /\ wsRoomCode[relayed[i].to] = wsRoomCode[ws]
                   /\ \A i \in 1..Len(sent') :
                         sent'[i].msg.type = "error" => sent'[i].to = ws]_vars

(* C13 *)

\* C13 as claimed: an offer, answer or ice-candidate message from a bound
\* socket whose peer slot holds an open socket is delivered to the peer
\* under its own type, and the sender receives no error.
C13_AsClaimed ==
    [][\A ws \in Sockets :
         LET peer == GetPeer(rooms, wsRoomCode[ws], wsRole[ws])
         IN  (/\ BoundStep(ws, {"offer", "answer", "ice-candidate"})
              /\ peer # Null
              /\ readyState[peer] = "OPEN")
             => /\ DeliversType(sent', peer, last'.op)
                /\ ~DeliversType(sent', ws, "error")]_vars

\* C13 amended: the relayed types are offer, answer and ice: such a message
\* from a bound socket whose peer slot is occupied goes to the peer exactly
\* as it came, once, with no error to the sender and no change of state;
\* a message of type ice-candidate is answered with the unknown-type error
\* and reaches nobody else.
C13_RelayVerbatim ==
    [][\A ws \in Sockets :
         LET peer == GetPeer(rooms, wsRoomCode[ws], wsRole[ws])
         IN  /\ (BoundStep(ws, {"offer", "answer", "ice"}) /\ peer # Null)
                   => /\ sent' = Send(readyState, peer,
                                      [type |-> last'.op, payload |-> last'.payload])
                      /\ UNCHANGED <<rooms, wsRoomCode, wsRole, readyState>>
             /\ (last'.op = "ice-candidate" /\ last'.ws = ws)
                   => /\ sent' = <<[to |-> ws,
                                    msg |-> ErrorMsg("unknown type: ice-candidate")]>>
                      /\ UNCHANGED <<rooms, wsRoomCode, wsRole, readyState>>]_vars

\* An ice message has just reached the open peer of its sender as it came.
C13_Witness ==
    \E ws, peer \in Sockets :
       /\ last.op = "ice"
       /\ last.ws = ws
       /\ peer # ws
       /\ peer = GetPeer(rooms, wsRoomCode[ws], wsRole[ws])
       /\ sent = <<[to |-> peer, msg |-> [type |-> "ice", payload |-> last.payload]]>>

(* C14 *)

\* C14 as claimed: a command message (command, data) from a bound sender
\* whose peer slot holds an open socket reaches the peer as exactly
\* {type: cmd, cmd: command, payload: data}; nothing is sent to the sender,
\* nothing else is sent, and no room state changes.
C14_AsClaimed ==
    [][\A ws \in Sockets :
         LET peer == GetPeer(rooms, wsRoomCode[ws], wsRole[ws])
         IN  (BoundStep(ws, {"command"}) /\ peer # Null /\ readyState[peer] = "OPEN")
             => /\ sent' = <<[to |-> peer,
                              msg |-> [type |-> "cmd", cmd |-> last'.command,
                                       payload |-> last'.payload]]>>
                /\ \A i \in 1..Len(sent') : sent'[i].to # ws
                /\ UNCHANGED <<rooms, roomCreationInProgress, wsRoomCode, wsRole,
                               readyState>>]_vars

(* C15 *)

PeerNotAvailable == ErrorMsg("peer not available")

\* The step just taken handled a message of one of the given types from ws,
\* bound to a room and a role, while the slot of the other role was empty.
PeerAbsentStep(ws, types) ==
    /\ BoundStep(ws, types)
    /\ GetPeer(rooms, wsRoomCode[ws], wsRole[ws]) = Null

\* C15 as claimed: offer, answer, ice, cmd, command, countdown-start,
\* start-stream and stop-stream from a bound sender whose peer slot is empty
\* are answered with the peer-not-available error, nothing else is sent, and
\* the room table is unchanged.
C15_AsClaimed ==
    [][\A ws \in Sockets :
         PeerAbsentStep(ws, PeerMessageTypes \cup {"start-stream", "stop-stream"})
            => /\ sent' = <<[to |-> ws, msg |-> PeerNotAvailable]>>
               /\ UNCHANGED rooms]_vars

\* C15 amended: with the peer slot empty, offer, answer, ice, cmd and command
\* are answered with the peer-not-available error alone and change nothing;
\* countdown-start is answered the same way but first sets the expiresAt of
\* the sender's room to now + 300000; start-stream and stop-stream do not
\* need a peer: from the web role they are answered with stream_ready or
\* stream_stopped to the sender alone, from the android role with the role
\* error, and the room table is unchanged.
C15_PeerAbsent ==
    [][\A ws \in Sockets :
         /\ PeerAbsentStep(ws, RelayTypes \cup {"command"})
               => /\ sent' = <<[to |-> ws, msg |-> PeerNotAvailable]>>
                  /\ UNCHANGED <<rooms, wsRoomCode, wsRole, readyState>>
         /\ PeerAbsentStep(ws, {"countdown-start"})
               => /\ sent' = <<[to |-> ws, msg |-> PeerNotAvailable]>>
                  /\ rooms' = IF wsRoomCode[ws] \in DOMAIN rooms
                              THEN [rooms EXCEPT
                                      ![wsRoomCode[ws]].expiresAt = now + ActiveWindow]
                              ELSE rooms
                  /\ UNCHANGED <<wsRoomCode, wsRole, readyState>>
         /\ PeerAbsentStep(ws, {"start-stream", "stop-stream"})
               => /\ Len(sent') = 1
                  /\ sent'[1].to = ws
                  /\ sent'[1].msg.type =
                        (IF wsRole[ws] # "web" THEN "error"
                         ELSE IF last'.op = "start-stream" THEN "stream_ready"
                         ELSE "stream_stopped")
                  /\ UNCHANGED <<rooms, wsRoomCode, wsRole, readyState>>]_vars

\* An offer of the only occupant of a room has just been answered with the
\* peer-not-available error.
C15_Witness ==
    \E ws \in Sockets, c \in DOMAIN rooms :
       /\ last.op = "offer"
       /\ last.ws = ws
       /\ wsRoomCode[ws] = c
       /\ rooms[c][wsRole[ws]] = ws
       /\ GetPeer(rooms, c, wsRole[ws]) = Null
       /\ sent = <<[to |-> ws, msg |-> PeerNotAvailable]>>

(* C16 *)

\* The types that need a bound sender.
BoundOnlyTypes ==
    PeerMessageTypes \cup {"start-stream", "stop-stream", "leave"}

\* The step just taken handled a frame of ws that no handler can serve: not
\* JSON, of an unknown type, or of a type that needs a binding ws lacks.
RejectedStep(ws) ==
    /\ last'.ws = ws
    /\ \/ last'.op = "invalid-json"
       \/ last'.op \in UnknownTypes
       \/ last'.op \in BoundOnlyTypes /\ ~Bound(ws)

\* C16: a frame that is not valid JSON, a message of an unrecognized type,
\* and a relay-type message from a socket with no bound room or role each
\* produce exactly one message, an error to the sender that names what was
\* wrong, and change neither the room table nor any binding nor any
\* socket's state: the sender stays open.
C16_ErrorOnly ==
    [][\A ws \in Sockets :
         ("ws" \in DOMAIN last' /\ RejectedStep(ws))
            => /\ sent' = <<[to |-> ws,
                             msg |-> ErrorMsg(
                                IF last'.op = "invalid-json" THEN "Invalid JSON"
                                ELSE IF last'.op \in UnknownTypes
                                THEN UnknownTypeText(last'.op)
                                ELSE "not joined to room yet")]>>
               /\ readyState'[ws] = "OPEN"
               /\ closeCalls' = {}
               /\ UNCHANGED <<rooms, roomCreationInProgress, wsRoomCode, wsRole,
                              readyState>>]_vars

\* An unbound socket has just been told that it has not joined a room, and
\* another socket holds a room.
C16_Witness ==
    \E ws \in Sockets :
       /\ last.op \in BoundOnlyTypes
       /\ last.ws = ws
       /\ ~Bound(ws)
       /\ sent = <<[to |-> ws, msg |-> ErrorMsg("not joined to room yet")]>>
       /\ readyState[ws] = "OPEN"
       /\ rooms # << >>

(* C17 *)

StreamNoticeTypes == {"stream_ready", "stream_stopped"}

\* The last step delivered a stream_ready or a stream_stopped to somebody.
DeliversStreamNotice(out) ==
    \E i \in 1..Len(out) : out[i].msg.type \in StreamNoticeTypes

OpenOccupants(c) ==
    IF c \notin DOMAIN rooms THEN {}
    ELSE {w \in {rooms[c].android, rooms[c].web} \ {Null} : readyState[w] = "OPEN"}

\* C18 as claimed: stream_ready for room c is delivered only when a start
\* of the transcode for c has succeeded and its playlist exists; and when a
\* start for c fails, every open occupant of c is sent a notice of the
\* failure and nobody is sent stream_ready.
C18_AsClaimed ==
    [][/\ \A i \in 1..Len(sent') :
            sent'[i].msg.type = "stream_ready"
               => /\ \E k \in CallIds :
                        /\ calls'[k].code = sent'[i].msg.roomCode
                        /\ calls'[k].result = "resolved"
                  /\ streamDirs'[sent'[i].msg.roomCode] = "playlist"
       /\ \A k \in CallIds :
            (calls[k].result = "pending" /\ calls'[k].result = "rejected")
               => /\ ~DeliversStreamNotice(sent')
                  /\ \A w \in OpenOccupants(calls'[k].code) :
                        \E i \in 1..Len(sent') : sent'[i].to = w]_vars

(* C19 *)

\* The relayed messages a piece of output wrote to socket r, in the order
\* of the send() calls.
WrittenTo(out, r) ==
    LET mine == SelectSeq(out, LAMBDA d : d.to = r /\ d.msg.type \in RelayTypes)
    IN  [i \in 1..Len(mine) |-> mine[i].msg]

\* What socket r received from the handlers of s's relayed messages, in
\* the order it was written to r.
RECURSIVE Received(_, _, _)
Received(log, s, r) ==
    IF log = <<>> THEN <<>>
    ELSE (IF Head(log).from = s THEN WrittenTo(Head(log).sent, r) ELSE <<>>)
         \o Received(Tail(log), s, r)

\* What s sent while r was the open socket in the other slot, in the order
\* s sent it.
RelayedTo(log, s, r) ==
    LET mine == SelectSeq(log, LAMBDA e : e.from = s /\ e.peer = r /\ e.open)
    IN  [i \in 1..Len(mine) |-> mine[i].msg]

\* C19: for every sender s and every peer r, what r received from s's
\* relayed messages is exactly what s sent while r was the open socket in
\* the other slot, in the order s sent it: nothing reordered, nothing
\* written twice, nothing dropped.
C19_OrderKept ==
    \A s, r \in Sockets :
        Received(relayLog, s, r) = RelayedTo(relayLog, s, r)

\* Two different messages sent in a row by one socket to the other were
\* both received.
C19_Witness ==
    \E s, r \in Sockets :
        /\ s # r
        /\ Len(RelayedTo(relayLog, s, r)) >= 2
        /\ RelayedTo(relayLog, s, r)[1] # RelayedTo(relayLog, s, r)[2]
        /\ Len(Received(relayLog, s, r)) >= 2

(* C20 *)

\* The subprocesses spawned for room code c that are running.
RunningFor(c) == {k \in CallIds : procs[k] = "running" /\ calls[k].code = c}

\* C20 as claimed: at every moment at most one subprocess spawned by
\* start is running per room code, also when a second start arrives while
\* the first is still waiting for the input pipe or the playlist.
C20_AsClaimed == \A c \in Keys : Cardinality(RunningFor(c)) <= 1

(* C21 *)

\* The steps in which startStreamFromStdin itself gives up: the spawn
\* failed, or one of its bounded waits ran out.
StartFailureOps ==
    {"startStreamFromStdin", "spawn-timeout", "stdin-timeout", "playlist-timeout"}

\* Invocation k reports its failure to the caller in this step.
FailureReported(k) ==
    /\ last'.op \in StartFailureOps
    /\ last'.call = k
    /\ calls[k].result # "rejected"
    /\ calls'[k].result = "rejected"

\* C21 as claimed: at the moment a failed start is reported to the caller
\* its subprocess has been killed or never ran, and neither activeStreams
\* nor stdinProcesses contains the room code.
C21_AsClaimed ==
    [][\A k \in CallIds :
         FailureReported(k)
         => /\ procs'[k] # "running"
            /\ calls'[k].code \notin DOMAIN activeStreams'
            /\ calls'[k].code \notin DOMAIN stdinProcesses']_vars

(* C22 *)

\* C22 as claimed: an 'error' event of the subprocess is always observed
\* by a registered listener; none becomes an uncaught exception.
C22_AsClaimed == uncaught = {}

(* C23 *)

\* The room directory of c goes away in this step.
DirectoryDeleted(c) == streamDirs[c] # "none" /\ streamDirs'[c] = "none"

\* C23 as claimed: the output directory of room c is never deleted while a
\* session for c is registered, whichever stop or subprocess exit scheduled
\* the deletion.
C23_AsClaimed ==
    [][\A c \in Keys : DirectoryDeleted(c) => c \notin DOMAIN activeStreams]_vars

(* C24 *)

\* The chunks the writeChunk calls of a history handed to the stdin of
\* subprocess k, in arrival order.
ChunksOf(log, k) ==
    LET mine == SelectSeq(log, LAMBDA e : e.pipe = k)
    IN  [i \in 1..Len(mine) |-> mine[i].chunk]

\* This step is a writeChunk that found the stdin of subprocess k open.
WriteStepTo(k) ==
    /\ last'.op = "writeChunk"
    /\ Len(chunkLog') = Len(chunkLog) + 1
    /\ chunkLog'[Len(chunkLog')].pipe = k

\* Every chunk written to a pipe is in its buffer or has been read by the
\* subprocess, in arrival order.
NothingDropped ==
    \A k \in CallIds : fed[k] \o pipes[k].buf = ChunksOf(chunkLog, k)

\* C24 as claimed: writeChunk on an open pipe returns Busy exactly when the
\* pipe reports a full buffer, hands the chunk to the pipe in both cases,
\* in arrival order and without loss, and the first writeChunk after the
\* pipe's drain event returns Accepted.
C24_AsClaimed ==
    [][/\ \A k \in CallIds :
            WriteStepTo(k)
            => LET e == chunkLog'[Len(chunkLog')]
               IN  /\ e.ret = (BufferedLength(pipes[k].buf) + e.chunk.size
                                  < HighWaterMark)
                   /\ pipes'[k].buf = Append(pipes[k].buf, e.chunk)
                   /\ e.afterDrain => e.ret
       /\ NothingDropped']_vars

\* C24: writeChunk on an open pipe returns Busy exactly when the pipe
\* reports a full buffer, hands the chunk to the pipe in both cases, in
\* arrival order and without loss; the first writeChunk after the pipe's
\* drain event returns Accepted exactly when its chunk is smaller than the
\* pipe's buffer limit, and Busy for a chunk that fills the empty buffer.
C24_Backpressure ==
    [][/\ \A k \in CallIds :
            WriteStepTo(k)
            => LET e == chunkLog'[Len(chunkLog')]
               IN  /\ e.ret = (BufferedLength(pipes[k].buf) + e.chunk.size
                                  < HighWaterMark)
                   /\ pipes'[k].buf = Append(pipes[k].buf, e.chunk)
                   /\ e.afterDrain => (e.ret = (e.chunk.size < HighWaterMark))
       /\ NothingDropped']_vars

\* A pipe reported full, was drained by the subprocess, and the next
\* writeChunk, of a small chunk, was accepted.
C24_Witness ==
    \E i, j \in 1..Len(chunkLog) :
        /\ i < j
        /\ chunkLog[i].pipe # 0
        /\ chunkLog[j].pipe = chunkLog[i].pipe
        /\ ~chunkLog[i].ret
        /\ chunkLog[j].afterDrain
        /\ chunkLog[j].ret
        /\ chunkLog[i].chunk \in {fed[chunkLog[i].pipe][n] :
                                    n \in 1..Len(fed[chunkLog[i].pipe])}

(* C25 *)

\* The chunks that reached the stdin of subprocess k: read or still buffered.
ReachedStdin(k) ==
    {(fed[k] \o pipes[k].buf)[n] : n \in 1..Len(fed[k] \o pipes[k].buf)}

\* C25 as claimed: a chunk passed to writeChunk while no input pipe was
\* registered for its room is kept and written to the subprocess input
\* ahead of the later chunks: once a later chunk of the room has been
\* handed to a pipe, the earlier one has reached that pipe too.
C25_AsClaimed ==
    \A i, j \in 1..Len(chunkLog) :
        (/\ i < j
         /\ chunkLog[i].code = chunkLog[j].code
         /\ chunkLog[i].pipe = 0
         /\ chunkLog[j].pipe # 0)
        => chunkLog[i].chunk \in ReachedStdin(chunkLog[j].pipe)

(* C26 *)

\* The session of c is stopped in this step: its process is told to end
\* and its registration is removed.
StopIssued(c) ==
    /\ c \in DOMAIN activeStreams
    /\ c \notin DOMAIN activeStreams'
    /\ procs'[activeStreams[c]] # "running"

\* Nothing of the sessions changes in this step.
SessionsUntouched ==
    UNCHANGED <<procs, activeStreams, stdinProcesses, cleanupTimers>>

\* C26: a removeViewer that leaves no viewer of a registered session arms
\* the auto-stop timer of the room; addViewer removes the timer and stops
\* nothing; only a timer that is armed and was not removed since fires, and
\* when it fires with no viewer counted and a registered session it stops
\* the stream, while with a viewer counted or without a session it changes
\* no session.
C26_AutoStop ==
    [][\A c \in Keys :
         /\ (last' = [op |-> "removeViewer", code |-> c]
             /\ viewerCounts'[c] = 0 /\ c \in DOMAIN activeStreams)
            => autoStopTimers'[c] = "armed" /\ SessionsUntouched
         /\ last' = [op |-> "addViewer", code |-> c]
            => /\ autoStopTimers'[c] = "none"
               /\ SessionsUntouched
         /\ (last'.op = "auto-stop-timer" /\ last'.code = c)
            => /\ autoStopTimers[c] = "armed"
               /\ IF viewerCounts[c] = 0 /\ c \in DOMAIN activeStreams
                  THEN StopIssued(c)
                  ELSE SessionsUntouched]_vars

\* The timer of a room whose viewers were counted and have gone has fired
\* and stopped the stream.
C26_Witness ==
    \E c \in Keys :
        /\ last = [op |-> "auto-stop-timer", code |-> c, stopped |-> TRUE]
        /\ autoStopTimers[c] = "fired"
        /\ viewerCounts[c] = 0
        /\ c \in DOMAIN lastViewerActivity
        /\ c \notin DOMAIN activeStreams
        /\ \E k \in CallIds : calls[k].code = c /\ procs[k] = "killed"

(* C27 *)

InProgress == ErrorMsg("Room creation already in progress")

\* C27: after every handler no code is marked as being created, whichever
\* path create-room took, and no create-room is answered 'Room creation
\* already in progress'.
C27_MarkerCleared ==
    [][/\ roomCreationInProgress' = {}
       /\ \A i \in 1..Len(sent') : sent'[i].msg # InProgress
       /\ \A ws \in Sockets, raw \in RawCodes :
            last' = [op |-> "create-room", ws |-> ws, roomCode |-> raw]
            => CreateRoomBranch(ws, ToUpperCase(raw)) # "in-progress"]_vars

\* A create-room has just re-bound a room whose web socket was stale and
\* whose android slot is occupied, and no marker is left.
C27_Witness ==
    \E ws \in Sockets, raw \in RawCodes :
        /\ last = [op |-> "create-room", ws |-> ws, roomCode |-> raw]
        /\ ToUpperCase(raw) \in DOMAIN rooms
        /\ rooms[ToUpperCase(raw)].web = ws
        /\ rooms[ToUpperCase(raw)].android \notin {Null, ws}
        /\ Delivers(sent, ws, RoomCreated(ToUpperCase(raw)))
        /\ roomCreationInProgress = {}

(* C28 *)

NotJoinedYet == ErrorMsg("not joined to room yet")

\* This step is the handling of a leave sent by a socket that has no room
\* code or no role.
UnboundLeaveStep(ws) ==
    /\ last' = [op |-> "leave", ws |-> ws]
    /\ ~Bound(ws)

\* What a leave of an unbound socket must leave alone.
NothingChanged ==
    /\ rooms' = rooms
    /\ wsRoomCode' = wsRoomCode
    /\ wsRole' = wsRole
    /\ roomCreationInProgress' = roomCreationInProgress

\* C28 as claimed: a leave sent by a channel with no bound room or role
\* changes no room and no binding, and no message is sent to any channel.
C28_AsClaimed ==
    [][\A ws \in Sockets :
         UnboundLeaveStep(ws) => NothingChanged /\ sent' = <<>>]_vars

\* C28: a leave sent by a channel with no bound room or role changes no
\* room and no binding; the sender is sent the error 'not joined to room
\* yet', and no message is sent to any other channel.
C28_UnboundLeave ==
    [][\A ws \in Sockets :
         UnboundLeaveStep(ws)
         => NothingChanged /\ sent' = <<[to |-> ws, msg |-> NotJoinedYet]>>]_vars

\* An unbound socket has just sent leave while the other socket holds a
\* room, and got the error.
C28_Witness ==
    \E ws \in Sockets :
        /\ last = [op |-> "leave", ws |-> ws]
        /\ sent = <<[to |-> ws, msg |-> NotJoinedYet]>>
        /\ ~Bound(ws)
        /\ \E c \in DOMAIN rooms : rooms[c].web \notin {Null, ws}

(* C29 *)

\* In this step the slot role of room c passes from socket old to another
\* socket.
SlotTaken(c, role, old) ==
    /\ c \in DOMAIN rooms
    /\ c \in DOMAIN rooms'
    /\ rooms[c][role] = old
    /\ old # Null
    /\ rooms'[c][role] \notin {Null, old}

\* C29 as claimed: whenever a channel takes a slot that another channel
\* occupies, the previous occupant is closed with code 4001 in the same
\* handler; no occupant is overwritten silently.
C29_AsClaimed ==
    [][\A c \in Keys, role \in Roles, old \in Sockets :
         SlotTaken(c, role, old) => old \in closeCalls']_vars

(* C30 *)

\* Invocation k resolves with the playlist URL in this step.
Resolves(k) == calls[k].result # "resolved" /\ calls'[k].result = "resolved"

\* C30 as claimed: a start resolves with the playlist URL only when the
\* playlist file of its room code exists, also when an earlier start for
\* the same code is still waiting for the playlist.
C30_AsClaimed ==
    [][\A k \in CallIds :
         Resolves(k) => streamDirs'[calls'[k].code] = "playlist"]_vars

(* C31 *)

\* This step is the handling of a close or error event of subprocess k.
SubprocessEvent(k) ==
    /\ last'.op \in {"ffmpeg-close", "ffmpeg-error"}
    /\ last'.call = k

\* The table keeps the entry of every room code bound to a subprocess
\* spawned after k.
KeepsNewer(table, after, k) ==
    \A c \in DOMAIN table :
        table[c] > k => c \in DOMAIN after /\ after[c] = table[c]

\* C31 as claimed: a close or error event of a subprocess whose session
\* was stopped never removes the entry of a session started later for the
\* same room code from activeStreams or stdinProcesses.
C31_AsClaimed ==
    [][\A k \in CallIds :
         (SubprocessEvent(k) /\ procs[k] = "killed")
         => /\ KeepsNewer(activeStreams, activeStreams', k)
            /\ KeepsNewer(stdinProcesses, stdinProcesses', k)]_vars

(* C32 *)

\* The room has a registered session and no viewer counted.
Unwatched(c) == c \in DOMAIN activeStreams /\ viewerCounts[c] = 0

\* C32 as claimed: whenever a room has a registered session and a viewer
\* count of zero, its auto-stop timer is pending, also when the count was
\* zero before the session was registered.
C32_AsClaimed ==
    \A c \in Keys : Unwatched(c) => autoStopTimers[c] = "armed"

(* C33 *)

\* The last viewer activity of the room is older than the threshold.
Stale(c) ==
    /\ c \in DOMAIN lastViewerActivity
    /\ now - lastViewerActivity[c] > InactiveThreshold

\* C33 as claimed: after a monitoring tick every room whose last viewer
\* activity is older than the threshold has a viewer count of zero and, with
\* a registered session, an armed auto-stop timer; the count and the timer
\* of every other room are as before the tick.
C33_AsClaimed ==
    [][last'.op = "viewer-monitor"
       => \A c \in Keys :
            IF Stale(c)
            THEN /\ viewerCounts'[c] = 0
                 /\ c \in DOMAIN activeStreams' => autoStopTimers'[c] = "armed"
            ELSE /\ viewerCounts'[c] = viewerCounts[c]
                 /\ autoStopTimers'[c] = autoStopTimers[c]]_vars

(* C34 *)

\* This step is a call of stopStream(c) from outside the service.
StopStep(c) == last'.op = "stopStream" /\ last'.code = c

\* C34: stopStream(c) on a registered session ends the input of the
\* subprocess before it signals the subprocess, removes c from activeStreams
\* and stdinProcesses in that step, leaves the output directory in place and
\* schedules one deferred cleanup; stopStream(c) without a registered
\* session changes nothing of the service and schedules nothing.
C34_Stop ==
    [][\A c \in Keys :
         StopStep(c)
         => IF c \in DOMAIN activeStreams
            THEN /\ last'.did = <<"stdin.end", "kill", "setTimeout">>
                 /\ procs'[activeStreams[c]] # "running"
                 /\ c \notin DOMAIN activeStreams'
                 /\ c \notin DOMAIN stdinProcesses'
                 /\ streamDirs' = streamDirs
                 /\ cleanupTimers' = [cleanupTimers EXCEPT ![c] = @ + 1]
            ELSE /\ last'.did = <<>>
                 /\ UNCHANGED serviceVars]_vars

\* A session whose output directory exists has just been stopped: its
\* input was ended, then its process signalled, the directory is still
\* there and its cleanup is pending.
C34_Witness ==
    \E c \in Keys :
        /\ last = [op |-> "stopStream", code |-> c,
                   did |-> <<"stdin.end", "kill", "setTimeout">>]
        /\ c \notin DOMAIN activeStreams
        /\ c \notin DOMAIN stdinProcesses
        /\ streamDirs[c] = "playlist"
        /\ cleanupTimers[c] = 1
        /\ \E k \in CallIds : calls[k].code = c /\ procs[k] = "killed"

(* C35 *)

\* The socket in this slot of room c when it is open, else Null.
OpenSlot(c, role) ==
    IF c \in DOMAIN rooms /\ rooms[c][role] # Null
       /\ readyState[rooms[c][role]] = "OPEN"
    THEN rooms[c][role] ELSE Null

\* C35: a start that succeeds sends stream_ready to the open web occupant
\* and posts the notification request for the room; the handling of that
\* request sends stream_ready to every open occupant of the room, to the
\* android occupant also when the web slot is empty or its socket is not
\* open.
C35_OccupantsNotified ==
    [][\A c \in Keys :
         /\ (last'.op = "playlist-found" /\ last'.code = c)
            => /\ c \in notifyRequests'
               /\ OpenSlot(c, "web") # Null
                  => Delivers(sent', OpenSlot(c, "web"), StreamReady(c))
         /\ (last'.op = "notify-stream-ready" /\ last'.code = c)
            => /\ c \in notifyRequests
               /\ \A w \in OpenOccupants(ToUpperCase(c)) :
                     Delivers(sent', w, StreamReady(ToUpperCase(c)))]_vars

\* The notification of a successful start has just been handled for a room
\* without an open web occupant, and its android occupant was sent
\* stream_ready.
C35_Witness ==
    \E c \in Keys :
        /\ last = [op |-> "notify-stream-ready", code |-> c]
        /\ OpenSlot(c, "web") = Null
        /\ OpenSlot(c, "android") # Null
        /\ sent = <<[to |-> OpenSlot(c, "android"), msg |-> StreamReady(c)]>>
        /\ \E k \in CallIds : calls[k].code = c /\ calls[k].result = "resolved"

(* C36 *)

\* The key is in the form create-room stores: upper case.
Normalized(key) == key = ToUpperCase(key)

\* C36 as claimed: every key of the room table is in normalized upper-case
\* form, whichever message created the room.
C36_AsClaimed ==
    \A key \in DOMAIN rooms : Normalized(key)

(* C37 *)

\* ws is bound to a room code and a role but is in no slot of the room the
\* table holds for that code.
StaleBinding(ws) ==
    /\ Bound(ws)
    /\ \/ wsRoomCode[ws] \notin DOMAIN rooms
       \/ ws \notin {rooms[wsRoomCode[ws]].android, rooms[wsRoomCode[ws]].web}

\* This step handled a relayed message or a leave of ws.
RelayOrLeaveStep(ws) ==
    /\ last'.op \in RelayTypes \cup {"leave"}
    /\ last'.ws = ws

\* C37 as claimed: a relayed message or a leave from a socket whose stored
\* room code and role are stale delivers nothing to any other socket and
\* leaves the room table as it is.
C37_AsClaimed ==
    [][\A ws \in Sockets :
         (RelayOrLeaveStep(ws) /\ StaleBinding(ws))
         => /\ rooms' = rooms
            /\ \A i \in 1..Len(sent') : sent'[i].to = ws]_vars

(* C38 *)

\* The socket stored in slot role of room c is bound to c and role.
SlotAgrees(c, role) ==
    rooms[c][role] # Null
    => wsRoomCode[rooms[c][role]] = c /\ wsRole[rooms[c][role]] = role

\* C38 as claimed: a socket stored in a slot of a room is bound to that
\* room code and that role, so that no socket is stored in two slots.
C38_AsClaimed ==
    \A c \in DOMAIN rooms, role \in Roles : SlotAgrees(c, role)

(* C40 *)

\* This step is the close event of x and the step before it was the error
\* event of x.
CloseAfterError(x) ==
    /\ last = [op |-> "error", ws |-> x]
    /\ last' = [op |-> "close", ws |-> x]

\* The step before sent peer-left to somebody.
PeerLeftSent(out) == \E i \in 1..Len(out) : out[i].msg.type = "peer-left"

\* C40 as claimed: the occupant that remains is sent peer-left once for a
\* departure: when the error event of a socket has sent it, the close event
\* of the same socket that follows sends no second one.
C40_AsClaimed ==
    [][\A x \in Sockets :
         (CloseAfterError(x) /\ PeerLeftSent(sent)) => ~PeerLeftSent(sent')]_vars

(* C39 *)

\* Every socket has connected and is closed: nobody is left to send a
\* message or to disconnect.
AllDisconnected == \A ws \in Sockets : readyState[ws] = "CLOSED"

=============================================================================
